---- MODULE Spec2Model ----
(***************************************************************************)
(* Personal-Finances backend: the transaction store with internal-transfer *)
(* pairing (services/transaction_service.py, models/transaction.py,        *)
(* api/transactions.py) and the investment movement ledger with FIFO       *)
(* holdings (models/movement.py, models/investment_position.py).           *)
(*                                                                         *)
(* Python None is modelled by None for text fields and by NoneId for       *)
(* integer fields.  Amounts and quantities are integers (exactly           *)
(* representable values); a description is a sequence of tokens, the empty *)
(* sequence being the empty string.  The money values of the investment    *)
(* ledger (price_per_unit, total_amount and what is derived from them) are *)
(* counted in thousandths, so that rounding to 2 decimals is rounding to a *)
(* multiple of 10; movement_datetime is a naive datetime, counted in days. *)
(***************************************************************************)
EXTENDS Integers, Sequences, FiniteSets, TLC

None == "None"
NoneId == 0 - 1

\* ---- bounds of the model ----
MaxCards == 2
MaxTx == 3
MaxMovements == 3
MaxPositions == 2
MaxSections == 2
MaxTransfers == 2
MaxLimit == 2
MaxWindow == 2
MaxTime == 4

\* ---- input domains ----
\* (amount, transaction_date) of the transfer requests: a negative and a
\* positive amount, two transfers of one date, two dates for one amount
TransferShapes == {<<0 - 2, 1>>, <<1, 1>>, <<1, 2>>}
ValidTypes == {"card", "cash", "stock", "crypto"}

VARIABLES
    cards,          \* ids of the rows of table cards
    nextCardId,     \* AUTOINCREMENT counter of table cards
    sections,       \* rows of table sections: [id, card_id, name]
    nextSectionId,  \* AUTOINCREMENT counter of table sections
    transactions,   \* rows of table transactions
    nextTxId,       \* AUTOINCREMENT counter of table transactions
    limiter,        \* the rate limiter of the HTTP handler: its
                    \* configuration, the clock, request_counts and
                    \* blocked_ips, the last call of _check_rate_limit and
                    \* the clients it has rejected so far
    pending,        \* the Transaction.create_internal_transfer call in
                    \* progress: idle, or its request and the id of the
                    \* debit row once the first save() has committed
    last,           \* the last operation on cards or transactions: its
                    \* request, its outcome, the rows it added and removed,
                    \* and the ids removed by the latest removing operation
    positions,      \* rows of table investment_positions
    nextPosId,      \* AUTOINCREMENT counter of table investment_positions
    movements,      \* rows of table movements
    nextMovId,      \* AUTOINCREMENT counter of table movements
    lastInv,        \* the last investment operation: its request, its
                    \* outcome, the rows its query returned and the rows
                    \* stored before it
    fractional,     \* the movements of one position whose quantities are
                    \* fractions, with the AUTOINCREMENT counter and the
                    \* outcome of the last create_movement
    inflight        \* per connection, the create_movement call it runs:
                    \* the statement it is at, its request, the holdings
                    \* it read and the row it inserted but not committed

txVars == <<cards, nextCardId, sections, nextSectionId, transactions,
           nextTxId, pending, last, limiter>>
invVars == <<positions, nextPosId, movements, nextMovId, lastInv, fractional,
            inflight>>
vars == <<cards, nextCardId, sections, nextSectionId, transactions,
          nextTxId, pending, last, limiter,
          positions, nextPosId, movements, nextMovId, lastInv, fractional,
          inflight>>

Abs(x) == IF x < 0 THEN 0 - x ELSE x

\* Python truthiness of an optional integer and of an optional string
TruthyId(x) == x # NoneId /\ x # 0
TruthyStr(s) == s # None /\ s # ""

\* ------------------------------------------------------------------------
\* models/transaction.py
\* ------------------------------------------------------------------------

\* all([transfer_from_type, transfer_from_id, transfer_to_type, transfer_to_id])
AllTransferFields(t) ==
    /\ TruthyStr(t.transfer_from_type)
    /\ TruthyId(t.transfer_from_id)
    /\ TruthyStr(t.transfer_to_type)
    /\ TruthyId(t.transfer_to_id)

\* validate without the checks of the two transfer types
validate_notypes(t, cs, ss) ==
    (IF t.description = <<>> THEN {"Description is required"} ELSE {})
    \cup (IF t.transaction_date = NoneId
          THEN {"Transaction date is required"} ELSE {})
    \cup (IF t.is_internal_transfer /\ ~AllTransferFields(t)
          THEN {"Internal transfers require all transfer fields"} ELSE {})
    \cup (IF t.card_id # NoneId /\ t.card_id \notin cs
          THEN {"Card does not exist"} ELSE {})
    \cup (IF t.section_id # NoneId /\ ~(\E s \in ss : s.id = t.section_id)
          THEN {"Section does not exist"} ELSE {})

\* Transaction.validate: the set of error messages
validate(t, cs, ss) ==
    (IF t.description = <<>> THEN {"Description is required"} ELSE {})
    \cup (IF t.transaction_date = NoneId
          THEN {"Transaction date is required"} ELSE {})
    \cup (IF t.is_internal_transfer
          THEN (IF ~AllTransferFields(t)
                THEN {"Internal transfers require all transfer fields"}
                ELSE {})
               \cup (IF t.transfer_from_type \notin ValidTypes
                     THEN {"Invalid transfer_from_type"} ELSE {})
               \cup (IF t.transfer_to_type \notin ValidTypes
                     THEN {"Invalid transfer_to_type"} ELSE {})
          ELSE {})
    \cup (IF t.card_id # NoneId /\ t.card_id \notin cs
          THEN {"Card does not exist"} ELSE {})
    \cup (IF t.section_id # NoneId /\ ~(\E s \in ss : s.id = t.section_id)
          THEN {"Section does not exist"} ELSE {})

\* CHECK and NOT NULL constraints of table transactions
TransactionsTableCheck(t) ==
    /\ t.transaction_date # NoneId
    /\ t.transfer_from_type \in ValidTypes \cup {None}
    /\ t.transfer_to_type \in ValidTypes \cup {None}

\* The outcome of an operation on the transaction store
Outcome(st, r, txs, nxt) ==
    [status |-> st, ret |-> r, transactions |-> txs, nextTxId |-> nxt]

\* Transaction.save of a new record (id is None): validate, INSERT, commit
save(txs, nxt, cs, ss, t) ==
    IF validate(t, cs, ss) # {}
    THEN Outcome("ValueError", NoneId, txs, nxt)
    ELSE IF ~TransactionsTableCheck(t)
    THEN Outcome("IntegrityError", NoneId, txs, nxt)
    ELSE Outcome("ok", nxt, txs \cup {[t EXCEPT !.id = nxt]}, nxt + 1)

\* ------------------------------------------------------------------------
\* TransactionDB: the transaction store used by the service
\* ------------------------------------------------------------------------

\* TransactionDB.create_transaction: build the record and save it
DB_create_transaction(txs, nxt, cs, ss, t) == save(txs, nxt, cs, ss, t)

\* TransactionDB.get_transaction: the rows with this id (none or one)
DB_get_transaction(txs, id) == {t \in txs : t.id = id}

\* TransactionDB.delete_transaction: TRUE iff a row was deleted
DB_delete_transaction(txs, id) ==
    [ret |-> (\E t \in txs : t.id = id),
     transactions |-> {t \in txs : t.id # id}]

\* TransactionDB.get_internal_transfer_pair: the transfer rows that share
\* the endpoints and the transaction date
DB_get_internal_transfer_pair(txs, ft, fi, tt, ti, d) ==
    {t \in txs : /\ t.is_internal_transfer
                 /\ t.transfer_from_type = ft
                 /\ t.transfer_from_id = fi
                 /\ t.transfer_to_type = tt
                 /\ t.transfer_to_id = ti
                 /\ t.transaction_date = d}

RECURSIVE DB_get_all_transactions(_)
\* TransactionDB.get_all_transactions: every row, newest first
\* (transaction_date DESC, then id DESC, as Transaction.find_all lists them)
DB_get_all_transactions(txs) ==
    IF txs = {} THEN <<>>
    ELSE LET t == CHOOSE x \in txs : \A y \in txs :
                      \/ x.transaction_date > y.transaction_date
                      \/ /\ x.transaction_date = y.transaction_date
                         /\ x.id >= y.id
         IN  <<t>> \o DB_get_all_transactions(txs \ {t})

\* An optional argument is a sequence of length 0 (None) or 1
OptSet(o, old) == IF o = <<>> THEN old ELSE o[1]

\* TransactionDB.update_transaction: overwrite the supplied fields and save
\* (UPDATE of amount, description, transaction_date, category)
DB_update_transaction(txs, nxt, cs, ss, id, u) ==
    LET old == CHOOSE t \in txs : t.id = id
        new == [old EXCEPT !.amount = OptSet(u.amount, old.amount),
                           !.description = OptSet(u.description, old.description),
                           !.transaction_date =
                               OptSet(u.transaction_date, old.transaction_date),
                           !.category = OptSet(u.category, old.category)]
    IN  IF validate(new, cs, ss) # {}
        THEN Outcome("ValueError", NoneId, txs, nxt)
        ELSE Outcome("ok", id, (txs \ {old}) \cup {new}, nxt)

\* ------------------------------------------------------------------------
\* services/transaction_service.py
\* ------------------------------------------------------------------------

\* The record handed to the store for one side of a transfer
TransferSide(r, amt, suffix, cardId) ==
    [id |-> NoneId,
     amount |-> amt,
     description |-> r.description \o suffix,
     transaction_date |-> r.transaction_date,
     card_id |-> cardId,
     section_id |-> NoneId,
     category |-> r.category,
     is_internal_transfer |-> TRUE,
     transfer_from_type |-> r.transfer_from_type,
     transfer_from_id |-> r.transfer_from_id,
     transfer_to_type |-> r.transfer_to_type,
     transfer_to_id |-> r.transfer_to_id]

\* _create_internal_transfer using the amount as given, without abs()
create_internal_transfer_noabs(txs, nxt, cs, ss, r) ==
    LET transfer_amount == r.amount
        debit_card_id == IF r.transfer_from_type = "card"
                         THEN r.transfer_from_id ELSE NoneId
        credit_card_id == IF r.transfer_to_type = "card"
                          THEN r.transfer_to_id ELSE NoneId
        debit == DB_create_transaction(txs, nxt, cs, ss,
                    TransferSide(r, 0 - transfer_amount,
                                 <<"Transfer out to", r.transfer_to_type>>,
                                 debit_card_id))
    IN  IF debit.status # "ok"
        THEN debit
        ELSE DB_create_transaction(debit.transactions, debit.nextTxId, cs, ss,
                    TransferSide(r, transfer_amount,
                                 <<"Transfer in from", r.transfer_from_type>>,
                                 credit_card_id))

\* TransactionService._create_internal_transfer: two independent store
\* calls, each committing on its own; the credit record is returned
create_internal_transfer(txs, nxt, cs, ss, r) ==
    LET transfer_amount == Abs(r.amount)
        debit_card_id == IF r.transfer_from_type = "card"
                         THEN r.transfer_from_id ELSE NoneId
        credit_card_id == IF r.transfer_to_type = "card"
                          THEN r.transfer_to_id ELSE NoneId
        debit == DB_create_transaction(txs, nxt, cs, ss,
                    TransferSide(r, 0 - transfer_amount,
                                 <<"Transfer out to", r.transfer_to_type>>,
                                 debit_card_id))
    IN  IF debit.status # "ok"
        THEN debit
        ELSE DB_create_transaction(debit.transactions, debit.nextTxId, cs, ss,
                    TransferSide(r, transfer_amount,
                                 <<"Transfer in from", r.transfer_from_type>>,
                                 credit_card_id))

\* TransactionService.create_transaction
create_transaction(txs, nxt, cs, ss, r) ==
    IF r.is_internal_transfer
    THEN IF ~AllTransferFields(r)
         THEN Outcome("ValueError", NoneId, txs, nxt)
         ELSE create_internal_transfer(txs, nxt, cs, ss, r)
    ELSE IF /\ TruthyId(r.section_id) /\ TruthyId(r.card_id)
            /\ ~(\E s \in ss : s.id = r.section_id /\ s.card_id = r.card_id)
    THEN Outcome("ValueError", NoneId, txs, nxt)
    ELSE DB_create_transaction(txs, nxt, cs, ss, [r EXCEPT !.id = NoneId])

\* Python seq[start:stop]: a negative index counts from the end, both
\* indices are clamped to 0..len(seq)
PySlice(seq, start, stop) ==
    LET clamp(i) == IF i < 0
                    THEN (IF Len(seq) + i < 0 THEN 0 ELSE Len(seq) + i)
                    ELSE (IF i > Len(seq) THEN Len(seq) ELSE i)
    IN  IF clamp(start) < clamp(stop)
        THEN SubSeq(seq, clamp(start) + 1, clamp(stop))
        ELSE <<>>

\* get_all_transactions starting the page one limit too far
get_all_transactions_nextpage(txs, page, limit) ==
    LET transactions_ == DB_get_all_transactions(txs)
        total == Len(transactions_)
        start_idx == page * limit
        end_idx == start_idx + limit
    IN  [transactions |-> PySlice(transactions_, start_idx, end_idx),
         total |-> total, page |-> page, limit |-> limit,
         has_next |-> end_idx < total]

\* TransactionService.get_all_transactions: one page of the list
get_all_transactions(txs, page, limit) ==
    LET transactions_ == DB_get_all_transactions(txs)
        total == Len(transactions_)
        start_idx == (page - 1) * limit
        end_idx == start_idx + limit
    IN  [transactions |-> PySlice(transactions_, start_idx, end_idx),
         total |-> total, page |-> page, limit |-> limit,
         has_next |-> end_idx < total]

\* update_transaction without the refusal of internal-transfer records
update_transaction_unguarded(txs, nxt, cs, ss, id, u) ==
    IF DB_get_transaction(txs, id) = {}
    THEN Outcome("ok", NoneId, txs, nxt)
    ELSE DB_update_transaction(txs, nxt, cs, ss, id, u)

\* TransactionService.validate_internal_transfer: the set of error messages
\* (no operation of the service calls it)
validate_internal_transfer(cs, ft, fi, tt, ti) ==
    (IF ft \notin ValidTypes THEN {"Invalid transfer_from_type"} ELSE {})
    \cup (IF tt \notin ValidTypes THEN {"Invalid transfer_to_type"} ELSE {})
    \cup (IF ft = tt /\ fi = ti
          THEN {"Cannot transfer to the same account"} ELSE {})
    \cup (IF ft = "card" /\ fi \notin cs
          THEN {"Source card does not exist"} ELSE {})
    \cup (IF tt = "card" /\ ti \notin cs
          THEN {"Destination card does not exist"} ELSE {})

\* TransactionService.update_transaction; ret NoneId is the None result
update_transaction(txs, nxt, cs, ss, id, u) ==
    LET existing == DB_get_transaction(txs, id)
    IN  IF existing = {}
        THEN Outcome("ok", NoneId, txs, nxt)
        ELSE IF (CHOOSE t \in existing : TRUE).is_internal_transfer
        THEN Outcome("ValueError", NoneId, txs, nxt)
        ELSE DB_update_transaction(txs, nxt, cs, ss, id, u)

\* _delete_internal_transfer deleting the given record only
delete_internal_transfer_single(txs, nxt, t) ==
    LET d == DB_delete_transaction(txs, t.id)
    IN  Outcome("ok", d.ret, d.transactions, nxt)

\* TransactionService._delete_internal_transfer: delete every row the
\* pair lookup returns; success unless one of the deletes reports FALSE
delete_internal_transfer(txs, nxt, t) ==
    LET paired_transactions ==
            DB_get_internal_transfer_pair(txs,
                t.transfer_from_type, t.transfer_from_id,
                t.transfer_to_type, t.transfer_to_id, t.transaction_date)
        success == \A p \in paired_transactions :
                       DB_delete_transaction(txs, p.id).ret
    IN  Outcome("ok", success, txs \ paired_transactions, nxt)

\* delete_transaction without the lookup of the record: the DELETE of no
\* row is reported as a success
delete_transaction_nolookup(txs, nxt, id) ==
    LET existing == DB_get_transaction(txs, id)
    IN  IF existing # {} /\ (CHOOSE t \in existing : TRUE).is_internal_transfer
        THEN delete_internal_transfer(txs, nxt, CHOOSE t \in existing : TRUE)
        ELSE Outcome("ok", TRUE, DB_delete_transaction(txs, id).transactions,
                     nxt)

\* TransactionService.delete_transaction; ret is the returned bool
delete_transaction(txs, nxt, id) ==
    LET existing == DB_get_transaction(txs, id)
    IN  IF existing = {}
        THEN Outcome("ok", FALSE, txs, nxt)
        ELSE IF (CHOOSE t \in existing : TRUE).is_internal_transfer
        THEN delete_internal_transfer(txs, nxt, CHOOSE t \in existing : TRUE)
        ELSE LET d == DB_delete_transaction(txs, id)
             IN  Outcome("ok", d.ret, d.transactions, nxt)

\* ------------------------------------------------------------------------
\* models/transaction.py: Transaction.create_internal_transfer
\* ------------------------------------------------------------------------

\* One of the two records the call builds: cls(amount=..., description=...,
\* card_id=..., is_internal_transfer=True, transfer_from/to = the two cards)
TransferRecord(amt, word, cardId, from_card_id, to_card_id, d) ==
    [id |-> NoneId, amount |-> amt,
     description |-> <<word, "d">>,
     transaction_date |-> d, card_id |-> cardId,
     section_id |-> NoneId, category |-> None,
     is_internal_transfer |-> TRUE,
     transfer_from_type |-> "card", transfer_from_id |-> from_card_id,
     transfer_to_type |-> "card", transfer_to_id |-> to_card_id]

\* debit_transaction.save(): the record of the source card, with its own
\* connection and commit
save_debit(txs, nxt, cs, ss, amount, from_card_id, to_card_id, d) ==
    save(txs, nxt, cs, ss,
         TransferRecord(0 - Abs(amount), "Transfer to card", from_card_id,
                        from_card_id, to_card_id, d))

\* credit_transaction.save(): the record of the destination card, with its
\* own connection and commit
save_credit(txs, nxt, cs, ss, amount, from_card_id, to_card_id, d) ==
    save(txs, nxt, cs, ss,
         TransferRecord(Abs(amount), "Transfer from card", to_card_id,
                        from_card_id, to_card_id, d))

\* The call run without another caller in between: both records are built,
\* then saved one after the other; the debit record is the first of the
\* returned pair
Transaction_create_internal_transfer(txs, nxt, cs, ss, amount, from_card_id, to_card_id, d) ==
    LET debit == save_debit(txs, nxt, cs, ss, amount, from_card_id,
                            to_card_id, d)
    IN  IF debit.status # "ok"
        THEN debit
        ELSE LET credit == save_credit(debit.transactions, debit.nextTxId,
                               cs, ss, amount, from_card_id, to_card_id, d)
             IN  IF credit.status # "ok" THEN credit
                 ELSE [credit EXCEPT !.ret = debit.ret]

\* Transaction.delete on the record find_by_id returned: DELETE FROM
\* transactions WHERE id = ? and commit; no row deleted is a ValueError
Transaction_delete(txs, nxt, id) ==
    IF ~(\E t \in txs : t.id = id)
    THEN Outcome("ValueError", NoneId, txs, nxt)
    ELSE Outcome("ok", NoneId, {t \in txs : t.id # id}, nxt)

\* ------------------------------------------------------------------------
\* api/transactions.py: the HTTP status of each handler
\* ------------------------------------------------------------------------

\* except ValueError -> 400, except Exception -> 500
ErrorStatus(st) == IF st = "ValueError" THEN 400 ELSE 500

\* TransactionAPI._create_transaction (POST /api/transactions)
api_create_transaction(txs, nxt, cs, ss, r) ==
    IF r.description = <<>>
    THEN [http |-> 400, out |-> Outcome("rejected", NoneId, txs, nxt)]
    ELSE IF r.is_internal_transfer /\ ~AllTransferFields(r)
    THEN [http |-> 400, out |-> Outcome("rejected", NoneId, txs, nxt)]
    ELSE IF /\ r.is_internal_transfer
            /\ (r.transfer_from_type \notin ValidTypes
                \/ r.transfer_to_type \notin ValidTypes)
    THEN [http |-> 400, out |-> Outcome("rejected", NoneId, txs, nxt)]
    ELSE LET out == create_transaction(txs, nxt, cs, ss, r)
         IN  [http |-> IF out.status = "ok" THEN 201
                       ELSE ErrorStatus(out.status),
              out |-> out]

\* The four keys _update_transaction reads from the request body; every
\* other key of the body is left unread.  A category that is null or the
\* empty string becomes None, the same as a body without the key
ParseUpdate(data) ==
    [amount |-> data.amount, description |-> data.description,
     transaction_date |-> data.transaction_date,
     category |-> IF data.category # <<>> /\ TruthyStr(data.category[1])
                  THEN data.category ELSE <<>>]

\* _update_transaction writing the update as a delete and a fresh insert
api_update_transaction_reinsert(txs, nxt, cs, ss, id, data) ==
    IF DB_get_transaction(txs, id) = {}
    THEN [http |-> 404, out |-> Outcome("rejected", NoneId, txs, nxt)]
    ELSE IF data.description = << <<>> >>
    THEN [http |-> 400, out |-> Outcome("rejected", NoneId, txs, nxt)]
    ELSE LET out == update_transaction(txs, nxt, cs, ss, id, ParseUpdate(data))
         IN  IF out.status # "ok" \/ out.ret = NoneId
             THEN [http |-> IF out.status # "ok" THEN ErrorStatus(out.status)
                            ELSE 500,
                   out |-> out]
             ELSE LET new == CHOOSE t \in out.transactions : t.id = id
                  IN  [http |-> 200,
                       out |-> Outcome("ok", nxt,
                                  (out.transactions \ {new})
                                    \cup {[new EXCEPT !.id = nxt]},
                                  nxt + 1)]

\* TransactionAPI._update_transaction (PUT /api/transactions/{id})
api_update_transaction(txs, nxt, cs, ss, id, data) ==
    IF DB_get_transaction(txs, id) = {}
    THEN [http |-> 404, out |-> Outcome("rejected", NoneId, txs, nxt)]
    ELSE IF data.description = << <<>> >>
    THEN [http |-> 400, out |-> Outcome("rejected", NoneId, txs, nxt)]
    ELSE LET out == update_transaction(txs, nxt, cs, ss, id, ParseUpdate(data))
         IN  [http |-> IF out.status # "ok" THEN ErrorStatus(out.status)
                       ELSE IF out.ret = NoneId THEN 500 ELSE 200,
              out |-> out]

\* TransactionAPI._delete_transaction (DELETE /api/transactions/{id})
api_delete_transaction(txs, nxt, id) ==
    LET out == delete_transaction(txs, nxt, id)
    IN  [http |-> IF out.status # "ok" THEN 500
                  ELSE IF ~out.ret THEN 404 ELSE 204,
         out |-> out]

\* ------------------------------------------------------------------------
\* Requests
\* ------------------------------------------------------------------------

\* Well-formed (from, to) endpoint pairs a request may name: cards 1 and 2
\* may or may not exist; the last pair is a self-transfer
GoodRoutes == {<< <<"card", 1>>, <<"card", 2>> >>,
               << <<"card", 2>>, <<"card", 1>> >>,
               << <<"cash", 1>>, <<"card", 1>> >>,
               << <<"cash", 1>>, <<"cash", 1>> >>}
\* Malformed endpoints: a type outside the valid set, a missing type, a
\* missing id
BadEndpoints == {<<"bank", 1>>, <<None, 1>>, <<"cash", NoneId>>}

NewRequest(a, d, c, iit, ft, fi, tt, ti) ==
    [id |-> NoneId, amount |-> a, description |-> <<"d">>,
     transaction_date |-> d, card_id |-> c, section_id |-> NoneId,
     category |-> None, is_internal_transfer |-> iit,
     transfer_from_type |-> ft, transfer_from_id |-> fi,
     transfer_to_type |-> tt, transfer_to_id |-> ti]

TransferRequests ==
    {NewRequest(sh[1], sh[2], NoneId, TRUE,
                rt[1][1], rt[1][2], rt[2][1], rt[2][2]) :
        sh \in TransferShapes, rt \in GoodRoutes}
    \cup {NewRequest(1, 1, NoneId, TRUE, f[1], f[2], "cash", 1) :
             f \in BadEndpoints}
    \cup {NewRequest(1, 1, NoneId, TRUE, "cash", 1, t[1], t[2]) :
             t \in BadEndpoints}

PlainRequests ==
    {NewRequest(1, 1, c, FALSE, None, NoneId, None, NoneId) :
        c \in {NoneId, 1}}

\* An update of the amount and the date, and one that supplies nothing
UpdateRequests ==
    {[amount |-> <<0 - 2>>, description |-> <<>>, transaction_date |-> <<2>>,
      category |-> <<>>],
     [amount |-> <<>>, description |-> <<>>, transaction_date |-> <<>>,
      category |-> <<>>]}

\* The values a PUT body gives for the category key: a name, the empty
\* string and null
CategoryInputs == {"food", "", None}

\* The bodies of the PUT requests: the update requests, the first one also
\* supplying values for keys that are not updatable, and the bodies that
\* hold the category key alone
ReadonlyKeys == [id |-> 9, card_id |-> 2, section_id |-> 1,
                 is_internal_transfer |-> TRUE, transfer_from_type |-> "card",
                 transfer_from_id |-> 1, transfer_to_type |-> "cash",
                 transfer_to_id |-> 1]
UpdateBodies ==
    {[amount |-> u.amount, description |-> u.description,
      transaction_date |-> u.transaction_date, category |-> u.category,
      readonly |-> IF u.amount # <<>> THEN <<ReadonlyKeys>> ELSE <<>>] :
        u \in UpdateRequests}
    \cup {[amount |-> <<>>, description |-> <<>>, transaction_date |-> <<>>,
           category |-> <<c>>, readonly |-> <<>>] : c \in CategoryInputs}

\* ------------------------------------------------------------------------
\* Actions on the transaction store
\* ------------------------------------------------------------------------

Record(op, r, out, http) ==
    [op |-> op, req |-> r, status |-> out.status, ret |-> out.ret,
     http |-> http,
     added |-> out.transactions \ transactions,
     removed |-> transactions \ out.transactions,
     gone |-> IF \A t \in transactions :
                    \E x \in out.transactions : x.id = t.id
              THEN last.gone
              ELSE {t.id : t \in transactions}
                     \ {x.id : x \in out.transactions}]

Apply(op, r, out, http) ==
    /\ transactions' = out.transactions
    /\ nextTxId' = out.nextTxId
    /\ last' = Record(op, r, out, http)
    /\ UNCHANGED <<cards, nextCardId, sections, nextSectionId, pending,
                   limiter>>
    /\ UNCHANGED invVars

\* CardService.create_card with valid data: Card.save inserts a new row
CreateCard ==
    /\ nextCardId <= MaxCards
    /\ cards' = cards \cup {nextCardId}
    /\ nextCardId' = nextCardId + 1
    /\ last' = [op |-> "create_card", req |-> [id |-> nextCardId],
                status |-> "ok", ret |-> nextCardId, http |-> 0,
                added |-> {}, removed |-> {}, gone |-> last.gone]
    /\ UNCHANGED <<sections, nextSectionId, transactions, nextTxId, pending,
                   limiter>>
    /\ UNCHANGED invVars

\* ---- cards and their sections ----
SectionNames == {"food", "rent"}

CardOutcome(st, r, cs, ss, sn) ==
    [status |-> st, ret |-> r, cards |-> cs, sections |-> ss,
     nextSectionId |-> sn]

\* Section.validate and Section.save for a new section: the card must exist
\* and (card_id, name) must be new; the row takes the next id
Section_save(cs, ss, sn, card_id, name) ==
    IF card_id \notin cs
    THEN CardOutcome("ValueError", NoneId, cs, ss, sn)
    ELSE IF \E s \in ss : s.card_id = card_id /\ s.name = name
    THEN CardOutcome("ValueError", NoneId, cs, ss, sn)
    ELSE CardOutcome("ok", sn, cs,
                     ss \cup {[id |-> sn, card_id |-> card_id,
                               name |-> name]}, sn + 1)

\* Section.validate and Section.save for a section object that has an id:
\* the object's card must exist and no other section of that card has the
\* name; then UPDATE sections SET name = ? WHERE id = ?, which leaves the
\* stored card_id as it is and fails on UNIQUE(card_id, name) of table
\* sections (IntegrityError, rolled back) when another row of the stored
\* card has the name
Section_save_existing(cs, ss, sn, section_id, card_id, name) ==
    IF card_id \notin cs
    THEN CardOutcome("ValueError", NoneId, cs, ss, sn)
    ELSE IF \E s \in ss : /\ s.card_id = card_id /\ s.name = name
                           /\ s.id # section_id
    THEN CardOutcome("ValueError", NoneId, cs, ss, sn)
    ELSE IF \E s \in ss, o \in ss : /\ s.id = section_id /\ o.id # section_id
                                     /\ o.card_id = s.card_id
                                     /\ o.name = name
    THEN CardOutcome("IntegrityError", NoneId, cs, ss, sn)
    ELSE CardOutcome("ok", section_id, cs,
                     {IF s.id = section_id THEN [s EXCEPT !.name = name]
                      ELSE s : s \in ss}, sn)

\* SectionService.update_section: the section is looked up, name is
\* replaced when the data give one (data is <<>> or <<name>>), then saved
update_section(cs, ss, sn, section_id, data) ==
    IF ~(\E s \in ss : s.id = section_id)
    THEN CardOutcome("ValueError", NoneId, cs, ss, sn)
    ELSE LET section == CHOOSE s \in ss : s.id = section_id
         IN  Section_save_existing(cs, ss, sn, section_id, section.card_id,
                                   OptSet(data, section.name))

\* Section.delete: DELETE FROM sections WHERE id = ? and commit; no row
\* deleted is a ValueError
Section_delete(cs, ss, sn, section_id) ==
    IF ~(\E s \in ss : s.id = section_id)
    THEN CardOutcome("ValueError", NoneId, cs, ss, sn)
    ELSE CardOutcome("ok", NoneId, cs, {s \in ss : s.id # section_id}, sn)

\* SectionService.delete_section: look the section up, then Section.delete
delete_section(cs, ss, sn, section_id) ==
    IF ~(\E s \in ss : s.id = section_id)
    THEN CardOutcome("ValueError", NoneId, cs, ss, sn)
    ELSE LET d == Section_delete(cs, ss, sn, section_id)
         IN  IF d.status = "ok" THEN [d EXCEPT !.ret = TRUE] ELSE d

\* Card.delete: DELETE FROM cards WHERE id = ?. The connection never turns
\* foreign-key enforcement on, so ON DELETE CASCADE of table sections does
\* not act and the rows of sections are left as they are
Card_delete(cs, ss, sn, card_id) ==
    IF card_id \notin cs
    THEN CardOutcome("ValueError", NoneId, cs, ss, sn)
    ELSE CardOutcome("ok", NoneId, cs \ {card_id}, ss, sn)

\* CardService.delete_card: look the card up, then Card.delete
delete_card(cs, ss, sn, card_id) ==
    IF card_id \notin cs
    THEN CardOutcome("ValueError", NoneId, cs, ss, sn)
    ELSE LET d == Card_delete(cs, ss, sn, card_id)
         IN  IF d.status = "ok" THEN [d EXCEPT !.ret = 1] ELSE d

ApplyCards(op, r, out) ==
    /\ cards' = out.cards
    /\ sections' = out.sections
    /\ nextSectionId' = out.nextSectionId
    /\ last' = [op |-> op, req |-> r, status |-> out.status,
                ret |-> out.ret, http |-> 0, added |-> {}, removed |-> {},
                gone |-> last.gone]
    /\ UNCHANGED <<nextCardId, transactions, nextTxId, pending, limiter>>
    /\ UNCHANGED invVars

\* SectionService.create_section
CreateSection ==
    /\ nextSectionId <= MaxSections
    /\ \E c \in 1..MaxCards, n \in SectionNames :
        ApplyCards("create_section", [id |-> c, name |-> n],
                   Section_save(cards, sections, nextSectionId, c, n))

\* SectionService.update_section
UpdateSection ==
    \E id \in 1..MaxSections, data \in {<<>>} \cup {<<n>> : n \in SectionNames} :
        ApplyCards("update_section", [id |-> id, data |-> data],
                   update_section(cards, sections, nextSectionId, id, data))

\* SectionService.delete_section
DeleteSection ==
    \E id \in 1..MaxSections :
        ApplyCards("delete_section", [id |-> id],
                   delete_section(cards, sections, nextSectionId, id))

\* CardService.delete_card
DeleteCard ==
    \E c \in 1..MaxCards :
        ApplyCards("delete_card", [id |-> c],
                   delete_card(cards, sections, nextSectionId, c))

\* AUTOINCREMENT ids are capped: a request is taken only while the ids it
\* can consume (two for a transfer, one otherwise) are within MaxTx
IdsLeft(r) ==
    IF r.is_internal_transfer THEN nextTxId + 1 <= MaxTx ELSE nextTxId <= MaxTx

ServiceCreate ==
    \E r \in TransferRequests \cup PlainRequests :
        /\ IdsLeft(r)
        /\ Apply("create", r,
                 create_transaction(transactions, nextTxId, cards, sections, r), 0)

ServiceUpdate ==
    \E id \in 1..MaxTx, u \in UpdateRequests :
        Apply("update", [id |-> id, u |-> u],
              update_transaction(transactions, nextTxId, cards, sections, id, u), 0)

ServiceDelete ==
    \E id \in 1..MaxTx :
        Apply("delete", [id |-> id],
              delete_transaction(transactions, nextTxId, id), 0)

\* create_transaction while the ids of MaxTransfers transfers are left
TransferCreate ==
    \E r \in TransferRequests \cup PlainRequests :
        /\ nextTxId + (IF r.is_internal_transfer THEN 1 ELSE 0)
              <= 2 * MaxTransfers
        /\ Apply("create", r,
                 create_transaction(transactions, nextTxId, cards, sections, r), 0)

\* delete_transaction on one of those ids
TransferDelete ==
    \E id \in 1..(2 * MaxTransfers) :
        Apply("delete", [id |-> id],
              delete_transaction(transactions, nextTxId, id), 0)

ApiCreate ==
    \E r \in TransferRequests \cup PlainRequests :
        /\ IdsLeft(r)
        /\ LET res == api_create_transaction(transactions, nextTxId, cards,
                                             sections, r)
           IN  Apply("POST", r, res.out, res.http)

ApiUpdate ==
    \E id \in 1..MaxTx, u \in UpdateBodies :
        LET res == api_update_transaction(transactions, nextTxId, cards,
                                          sections, id, u)
        IN  Apply("PUT", [id |-> id, u |-> u], res.out, res.http)

ApiDelete ==
    \E id \in 1..MaxTx :
        LET res == api_delete_transaction(transactions, nextTxId, id)
        IN  Apply("DELETE", [id |-> id], res.out, res.http)

\* The pages and page sizes asked for; page 0 and limit 0 are what a
\* direct caller of the service can pass
PageInputs == 0..3
LimitInputs == 0..2

\* A read: the rows are left as they are and the page is recorded
GetAllTransactions ==
    \E page \in PageInputs, limit \in LimitInputs :
        Apply("get_all", [page |-> page, limit |-> limit],
              Outcome("ok", get_all_transactions(transactions, page, limit),
                      transactions, nextTxId), 0)

NoTransfer == [pc |-> "idle"]

\* Transaction.create_internal_transfer up to the return of
\* debit_transaction.save(): a failing save ends the call, a successful one
\* has committed the debit row and closed its connection
ModelCreateInternalTransfer ==
    \E sh \in TransferShapes, f \in {1, 2}, t \in {1, 2} :
        /\ pending.pc = "idle"
        /\ nextTxId + 1 <= MaxTx
        /\ LET r == [amount |-> sh[1], transaction_date |-> sh[2],
                     from_card_id |-> f, to_card_id |-> t]
               debit == save_debit(transactions, nextTxId, cards, sections,
                                   sh[1], f, t, sh[2])
           IN  IF debit.status # "ok"
               THEN Apply("create_internal_transfer", r, debit, 0)
               ELSE /\ transactions' = debit.transactions
                    /\ nextTxId' = debit.nextTxId
                    /\ pending' = [pc |-> "credit", req |-> r,
                                   debit_id |-> debit.ret]
                    /\ UNCHANGED <<cards, nextCardId, sections,
                                   nextSectionId, last, limiter>>
                    /\ UNCHANGED invVars

\* credit_transaction.save() and the return of the pair; last.added holds
\* the rows of the call that are stored when it ends
ModelSaveCredit ==
    /\ pending.pc = "credit"
    /\ LET r == pending.req
           credit == save_credit(transactions, nextTxId, cards, sections,
                                 r.amount, r.from_card_id, r.to_card_id,
                                 r.transaction_date)
       IN  /\ transactions' = credit.transactions
           /\ nextTxId' = credit.nextTxId
           /\ last' = [op |-> "create_internal_transfer", req |-> r,
                       status |-> credit.status,
                       ret |-> IF credit.status = "ok" THEN pending.debit_id
                               ELSE credit.ret,
                       http |-> 0,
                       added |-> {x \in credit.transactions :
                                     \/ x.id = pending.debit_id
                                     \/ x \notin transactions},
                       removed |-> {}, gone |-> last.gone]
    /\ pending' = NoTransfer
    /\ UNCHANGED <<cards, nextCardId, sections, nextSectionId, limiter>>
    /\ UNCHANGED invVars

\* Transaction.find_by_id(id).delete() on a stored record
ModelDelete ==
    \E id \in 1..MaxTx :
        /\ \E t \in transactions : t.id = id
        /\ Apply("model_delete", [id |-> id],
                 Transaction_delete(transactions, nextTxId, id), 0)

\* ------------------------------------------------------------------------
\* models/investment_position.py
\* ------------------------------------------------------------------------

SymbolInputs == {"aapl", " AAPL ", "msft", " "}

\* symbol.strip().upper() on the symbols of SymbolInputs
StripUpper(sym) ==
    CASE sym = "aapl" -> "AAPL"
      [] sym = " AAPL " -> "AAPL"
      [] sym = "msft" -> "MSFT"
      [] sym = " " -> ""
      [] OTHER -> sym

InvOutcome(st, r, ps, pn, ms, mn) ==
    [status |-> st, ret |-> r, positions |-> ps, nextPosId |-> pn,
     movements |-> ms, nextMovId |-> mn]

\* InvestmentPositionDB.create_position
create_position(ps, pn, ms, mn, asset_type, symbol) ==
    IF asset_type \notin {"stock", "crypto"}
    THEN InvOutcome("ValueError", NoneId, ps, pn, ms, mn)
    ELSE IF StripUpper(symbol) = ""
    THEN InvOutcome("ValueError", NoneId, ps, pn, ms, mn)
    ELSE IF \E q \in ps : q.asset_type = asset_type
                           /\ q.symbol = StripUpper(symbol)
    THEN InvOutcome("ValueError", NoneId, ps, pn, ms, mn)
    ELSE InvOutcome("ok", pn,
                    ps \cup {[id |-> pn, asset_type |-> asset_type,
                              symbol |-> StripUpper(symbol)]},
                    pn + 1, ms, mn)

\* update_position comparing and storing the symbol as given, without
\* strip().upper()
update_position_raw(ps, pn, ms, mn, position_id, symbol) ==
    IF ~(\E q \in ps : q.id = position_id)
    THEN InvOutcome("ok", NoneId, ps, pn, ms, mn)
    ELSE LET existing == CHOOSE q \in ps : q.id = position_id
         IN  IF symbol = None
             THEN InvOutcome("ok", position_id, ps, pn, ms, mn)
             ELSE IF symbol = ""
             THEN InvOutcome("ValueError", NoneId, ps, pn, ms, mn)
             ELSE IF \E q \in ps : /\ q.asset_type = existing.asset_type
                                    /\ q.symbol = symbol
                                    /\ q.id # position_id
             THEN InvOutcome("ValueError", NoneId, ps, pn, ms, mn)
             ELSE InvOutcome("ok", position_id,
                     (ps \ {existing})
                       \cup {[existing EXCEPT !.symbol = symbol]},
                     pn, ms, mn)

\* InvestmentPositionDB.update_position; symbol None leaves the row as it
\* is; ret NoneId is the None returned for an id that is not stored
update_position(ps, pn, ms, mn, position_id, symbol) ==
    IF ~(\E q \in ps : q.id = position_id)
    THEN InvOutcome("ok", NoneId, ps, pn, ms, mn)
    ELSE LET existing == CHOOSE q \in ps : q.id = position_id
         IN  IF symbol = None
             THEN InvOutcome("ok", position_id, ps, pn, ms, mn)
             ELSE IF StripUpper(symbol) = ""
             THEN InvOutcome("ValueError", NoneId, ps, pn, ms, mn)
             ELSE IF \E q \in ps : /\ q.asset_type = existing.asset_type
                                    /\ q.symbol = StripUpper(symbol)
                                    /\ q.id # position_id
             THEN InvOutcome("ValueError", NoneId, ps, pn, ms, mn)
             ELSE InvOutcome("ok", position_id,
                     (ps \ {existing})
                       \cup {[existing EXCEPT !.symbol = StripUpper(symbol)]},
                     pn, ms, mn)

\* delete_position deleting the row of the position only; the foreign key
\* of movements is not enforced (no PRAGMA foreign_keys)
delete_position_nocascade(ps, pn, ms, mn, position_id) ==
    IF ~(\E q \in ps : q.id = position_id)
    THEN InvOutcome("ok", FALSE, ps, pn, ms, mn)
    ELSE InvOutcome("ok", TRUE, {q \in ps : q.id # position_id}, pn, ms, mn)

\* InvestmentPositionDB.delete_position: the movements of the position,
\* then the position
delete_position(ps, pn, ms, mn, position_id) ==
    IF ~(\E q \in ps : q.id = position_id)
    THEN InvOutcome("ok", FALSE, ps, pn, ms, mn)
    ELSE InvOutcome("ok", TRUE, {q \in ps : q.id # position_id}, pn,
                    {m \in ms : m.position_id # position_id}, mn)

\* ------------------------------------------------------------------------
\* models/movement.py
\* ------------------------------------------------------------------------

\* The checks on a new movement without the one on price_per_unit
MovementValid_noprice(movement_type, quantity, price_per_unit) ==
    /\ movement_type \in {"buy", "sell"}
    /\ quantity > 0

\* Movement.__post_init__: the checks on a new movement
MovementValid(movement_type, quantity, price_per_unit) ==
    /\ movement_type \in {"buy", "sell"}
    /\ quantity > 0
    /\ price_per_unit > 0

RECURSIVE ExponentUp(_, _)
\* The largest e >= 0 with 2^e <= n / 1000, for n >= 1000
ExponentUp(n, e) ==
    IF 1000 * 2^(e + 1) <= n THEN ExponentUp(n, e + 1) ELSE e

RECURSIVE ExponentDown(_, _)
\* The least e >= 1 with 1 <= (n / 1000) * 2^e, for 0 < n < 1000
ExponentDown(n, e) ==
    IF n * 2^e < 1000 THEN ExponentDown(n, e + 1) ELSE e

\* The binary exponent of the float nearest n thousandths:
\* floor(log2(n / 1000)), n > 0
FloatExponent(n) ==
    IF n >= 1000 THEN ExponentUp(n, 0) ELSE 0 - ExponentDown(n, 1)

RECURSIVE TwoToMod1000(_)
\* 2^s modulo 1000
TwoToMod1000(s) ==
    IF s = 0 THEN 1 ELSE (2 * TwoToMod1000(s - 1)) % 1000

\* The float of a price: price_per_unit thousandths has no exact binary64
\* form in general, the float is the nearest M * 2^-s with 2^52 <= M < 2^53.
\* The result is 1000 * M - price_per_unit * 2^s, the float minus the
\* decimal price in units of 2^-s / 1000 (a multiple of 8, never a tie).
PriceFloatError(price_per_unit) ==
    LET s == 52 - FloatExponent(price_per_unit)
        r == ((price_per_unit % 1000) * TwoToMod1000(s)) % 1000
    IN  IF r < 500 THEN 0 - r ELSE 1000 - r

RECURSIVE MantissaMod(_, _)
\* The lowest j bits of the mantissa M of the float of a price, from
\* 125 * M = price_per_unit * 2^(s - 3) + e8, e8 an eighth of
\* PriceFloatError, found bit by bit (s - 3 >= j)
MantissaMod(e8, j) ==
    IF j = 0 THEN 0
    ELSE LET m == MantissaMod(e8, j - 1)
         IN  IF (125 * m + 125 * 2^j - e8) % 2^j = 0 THEN m
             ELSE m + 2^(j - 1)

\* self.quantity * self.price_per_unit in binary64, quantity a whole number
\* of units: the exact product quantity * M * 2^-s is rounded to 53 bits,
\* to nearest and on a tie to the even mantissa, which drops its lowest k
\* bits.  The result is the float product minus the decimal product
\* quantity * price_per_unit, in units of 2^-s / 1000.
ProductFloatError(quantity, price_per_unit) ==
    LET e1 == PriceFloatError(price_per_unit)
        k == FloatExponent(quantity * price_per_unit)
             - FloatExponent(price_per_unit)
        m == MantissaMod(e1 \div 8, k + 1)
        low == ((quantity % 2^(k + 1)) * m) % 2^(k + 1)
        rem == low % 2^k
        e2 == IF 2 * rem < 2^k THEN 0 - rem
              ELSE IF 2 * rem > 2^k THEN 2^k - rem
              ELSE IF low < 2^k THEN 0 - rem ELSE 2^k - rem
    IN  quantity * e1 + 1000 * e2

\* round(self.quantity * self.price_per_unit, 2), amounts counted in
\* thousandths: round() takes the hundredth nearest the exact value of the
\* float product, so a decimal product ending in 5 thousandths goes down
\* when the float lies below it, up when the float lies above it, and to
\* the even hundredth when the float is the decimal product itself
Round2(quantity, price_per_unit) ==
    LET x == quantity * price_per_unit
        r == x % 10
        e == ProductFloatError(quantity, price_per_unit)
    IN  IF r < 5 THEN x - r
        ELSE IF r > 5 THEN x + (10 - r)
        ELSE IF e < 0 THEN x - r
        ELSE IF e > 0 THEN x + (10 - r)
        ELSE IF ((x - r) \div 10) % 2 = 0 THEN x - r ELSE x + (10 - r)

RECURSIVE SumQty(_, _)
\* SUM(CASE WHEN movement_type = ty THEN quantity ELSE 0 END)
SumQty(ms, ty) ==
    IF ms = {} THEN 0
    ELSE LET m == CHOOSE x \in ms : TRUE
         IN  (IF m.movement_type = ty THEN m.quantity ELSE 0)
             + SumQty(ms \ {m}, ty)

\* _calculate_current_holdings counting the buys only
calculate_current_holdings_bought(ms, position_id) ==
    SumQty({m \in ms : m.position_id = position_id}, "buy")

\* MovementDB._calculate_current_holdings
calculate_current_holdings(ms, position_id) ==
    LET mine == {m \in ms : m.position_id = position_id}
        total_bought == SumQty(mine, "buy")
        total_sold == SumQty(mine, "sell")
    IN  IF total_bought - total_sold > 0 THEN total_bought - total_sold ELSE 0

\* MovementDB.create_movement
create_movement(ps, pn, ms, mn, position_id, movement_type, quantity, price_per_unit, movement_datetime) ==
    IF ~MovementValid(movement_type, quantity, price_per_unit)
    THEN InvOutcome("ValueError", NoneId, ps, pn, ms, mn)
    ELSE IF ~(\E q \in ps : q.id = position_id)
    THEN InvOutcome("ValueError", NoneId, ps, pn, ms, mn)
    ELSE IF /\ movement_type = "sell"
            /\ calculate_current_holdings(ms, position_id) < quantity
    THEN InvOutcome("ValueError", NoneId, ps, pn, ms, mn)
    ELSE InvOutcome("ok", mn, ps, pn,
                    ms \cup {[id |-> mn, position_id |-> position_id,
                              movement_type |-> movement_type,
                              quantity |-> quantity,
                              price_per_unit |-> price_per_unit,
                              total_amount |->
                                  Round2(quantity, price_per_unit),
                              movement_datetime |-> movement_datetime]},
                    mn + 1)

\* MovementDB.update_movement: quantity, price_per_unit and
\* movement_datetime are given or not (<<>>); a new quantity of a sell is
\* compared with the holdings plus the sell's stored quantity, a new
\* quantity of a buy with nothing; total_amount is recomputed, unrounded,
\* when quantity or price is given.  The description column is not carried
\* by the rows of the model.
update_movement(ps, pn, ms, mn, movement_id, quantity, price_per_unit, movement_datetime) ==
    IF ~(\E m \in ms : m.id = movement_id)
    THEN InvOutcome("ok", NoneId, ps, pn, ms, mn)
    ELSE LET existing == CHOOSE m \in ms : m.id = movement_id
             other_holdings ==
                 calculate_current_holdings(ms, existing.position_id)
                 + existing.quantity
             new_quantity == OptSet(quantity, existing.quantity)
             new_price == OptSet(price_per_unit, existing.price_per_unit)
             updated ==
                 [existing EXCEPT
                    !.quantity = new_quantity,
                    !.price_per_unit = new_price,
                    !.total_amount =
                        IF quantity = <<>> /\ price_per_unit = <<>> THEN @
                        ELSE new_quantity * new_price,
                    !.movement_datetime = OptSet(movement_datetime, @)]
         IN  IF quantity # <<>> /\ quantity[1] <= 0
             THEN InvOutcome("ValueError", NoneId, ps, pn, ms, mn)
             ELSE IF /\ quantity # <<>>
                     /\ existing.movement_type = "sell"
                     /\ other_holdings < quantity[1]
             THEN InvOutcome("ValueError", NoneId, ps, pn, ms, mn)
             ELSE IF price_per_unit # <<>> /\ price_per_unit[1] <= 0
             THEN InvOutcome("ValueError", NoneId, ps, pn, ms, mn)
             ELSE InvOutcome("ok", movement_id, ps, pn,
                             (ms \ {existing}) \cup {updated}, mn)

\* MovementDB.delete_movement
delete_movement(ps, pn, ms, mn, movement_id) ==
    IF ~(\E m \in ms : m.id = movement_id)
    THEN InvOutcome("ok", FALSE, ps, pn, ms, mn)
    ELSE InvOutcome("ok", TRUE, ps, pn,
                    {m \in ms : m.id # movement_id}, mn)

RECURSIVE ScanOrders(_)
\* The row orders the query of get_position_holdings can return:
\* WHERE position_id = ? ORDER BY movement_datetime ASC.  The statement
\* names no second sort key, so rows of equal movement_datetime come in
\* whatever order the database engine produces: every order that is
\* ascending in movement_datetime is a possible result.  movement_datetime
\* is stored and compared as isoformat() text; the datetimes of the model
\* are naive ones, whose text sorts as the datetimes do, and are numbered
\* in that order.
ScanOrders(ms) ==
    IF ms = {} THEN {<<>>}
    ELSE LET first == {m \in ms : \A x \in ms :
                          m.movement_datetime <= x.movement_datetime}
         IN  UNION {{<<m>> \o rest : rest \in ScanOrders(ms \ {m})} :
                    m \in first}

RECURSIVE ConsumeLots_strict(_, _)
\* ConsumeLots using the entire lot only when it is smaller than the sale
ConsumeLots_strict(fifo_lots, shares_to_sell) ==
    IF shares_to_sell > 0 /\ fifo_lots # <<>>
    THEN LET lot == Head(fifo_lots)
         IN  IF lot.remaining < shares_to_sell
             THEN ConsumeLots_strict(Tail(fifo_lots),
                                     shares_to_sell - lot.remaining)
             ELSE <<[lot EXCEPT !.remaining = @ - shares_to_sell]>>
                  \o Tail(fifo_lots)
    ELSE fifo_lots

RECURSIVE ConsumeLots(_, _)
\* while shares_to_sell > 0 and fifo_lots: use the entire first lot or a
\* part of it
ConsumeLots(fifo_lots, shares_to_sell) ==
    IF shares_to_sell > 0 /\ fifo_lots # <<>>
    THEN LET lot == Head(fifo_lots)
         IN  IF lot.remaining <= shares_to_sell
             THEN ConsumeLots(Tail(fifo_lots), shares_to_sell - lot.remaining)
             ELSE <<[lot EXCEPT !.remaining = @ - shares_to_sell]>>
                  \o Tail(fifo_lots)
    ELSE fifo_lots

RECURSIVE LotsValue(_)
\* sum(lot['remaining'] * lot['price'] for lot in fifo_lots)
LotsValue(fifo_lots) ==
    IF fifo_lots = <<>> THEN 0
    ELSE Head(fifo_lots).remaining * Head(fifo_lots).price
         + LotsValue(Tail(fifo_lots))

RECURSIVE ScanMovements(_, _)
\* The loop of get_position_holdings over the rows, from the accumulator
\* acc, on a ledger whose quantities are whole units and whose amounts are
\* decimals counted in thousandths; the same loop on binary64 values, where
\* each += rounds, is ScanFractional
ScanMovements(rows, acc) ==
    IF rows = <<>> THEN acc
    ELSE LET movement == Head(rows)
         IN  IF movement.movement_type = "buy"
             THEN ScanMovements(Tail(rows),
                    [acc EXCEPT
                       !.total_quantity = @ + movement.quantity,
                       !.total_cost = @ + movement.total_amount,
                       !.fifo_lots = Append(@,
                           [quantity |-> movement.quantity,
                            price |-> movement.price_per_unit,
                            remaining |-> movement.quantity])])
             ELSE ScanMovements(Tail(rows),
                    [acc EXCEPT
                       !.total_quantity = @ - movement.quantity,
                       !.total_proceeds = @ + movement.total_amount,
                       !.fifo_lots = ConsumeLots(@, movement.quantity)])

\* MovementDB.get_position_holdings on the rows in the order the query
\* returned them; average_cost_basis is the fraction num / den
get_position_holdings(rows, position_id) ==
    LET acc == ScanMovements(rows,
                   [total_quantity |-> 0, total_cost |-> 0,
                    total_proceeds |-> 0, fifo_lots |-> <<>>])
    IN  [position_id |-> position_id,
         current_quantity |-> IF acc.total_quantity > 0
                              THEN acc.total_quantity ELSE 0,
         total_cost |-> acc.total_cost,
         total_proceeds |-> acc.total_proceeds,
         average_cost_basis |->
             IF acc.fifo_lots # <<>> /\ acc.total_quantity > 0
             THEN [num |-> LotsValue(acc.fifo_lots),
                   den |-> acc.total_quantity]
             ELSE [num |-> 0, den |-> 1],
         realized_pnl |-> acc.total_proceeds
                          - (acc.total_cost - LotsValue(acc.fifo_lots)),
         fifo_lots |-> acc.fifo_lots]

\* InvestmentPositionDB.get_position_summary leaving the sells out
position_db_summary_buysonly(ps, ms, position_id) ==
    IF ~(\E q \in ps : q.id = position_id) THEN [found |-> FALSE]
    ELSE LET mine == {m \in ms : m.position_id = position_id
                                 /\ m.movement_type = "buy"}
         IN  [position |-> CHOOSE q \in ps : q.id = position_id,
              current_quantity |-> SumQty(mine, "buy"),
              cost_basis |-> [num |-> 0, den |-> 1],
              total_invested |-> SumQty(mine, "buy"),
              total_proceeds |-> 0,
              realized_pnl |-> 0]

\* InvestmentPositionDB.get_position_summary: one row per movement_type
\* with SUM(quantity) and SUM(total_amount); cost_basis is the fraction
\* num / den; None, written [found |-> FALSE], when the position is not
\* stored.  In realized_pnl the
\* product total_cost * (total_proceeds / total_cost) is total_proceeds
position_db_summary(ps, ms, position_id) ==
    IF ~(\E q \in ps : q.id = position_id) THEN [found |-> FALSE]
    ELSE LET mine == {m \in ms : m.position_id = position_id}
             buys == {m \in mine : m.movement_type = "buy"}
             sells == {m \in mine : m.movement_type = "sell"}
             RECURSIVE SumTotal(_)
             SumTotal(rs) ==
                 IF rs = {} THEN 0
                 ELSE LET m == CHOOSE x \in rs : TRUE
                      IN  m.total_amount + SumTotal(rs \ {m})
             total_quantity == SumQty(mine, "buy") - SumQty(mine, "sell")
             total_cost == SumTotal(buys)
             total_proceeds == SumTotal(sells)
         IN  [position |-> CHOOSE q \in ps : q.id = position_id,
              current_quantity |-> IF total_quantity > 0
                                   THEN total_quantity ELSE 0,
              cost_basis |-> IF total_quantity > 0
                             THEN [num |-> total_cost, den |-> total_quantity]
                             ELSE [num |-> 0, den |-> 1],
              total_invested |-> total_cost,
              total_proceeds |-> total_proceeds,
              realized_pnl |->
                  total_proceeds
                  - (IF total_cost > 0
                     THEN (total_cost * total_proceeds) \div total_cost
                     ELSE 0)]

\* ------------------------------------------------------------------------
\* Quantities that are fractions
\* ------------------------------------------------------------------------
\* Column quantity is DECIMAL(18,8), of NUMERIC affinity: a fraction is
\* stored as the float it came as, and the Python values are floats.  A
\* binary64 value below 4 that is a multiple of 2^-56 is written as the
\* number hi * Limb + lo of units of 2^-56 it holds, with its sign.
Limb == 2^28

F64(neg, hi, lo) == [neg |-> neg, hi |-> hi, lo |-> lo]
F64Zero == F64(FALSE, 0, 0)

\* float("0.1"), float("0.2"), float("0.3"), float("0.7")
F64Of(text) ==
    CASE text = "0.1" -> F64(FALSE, 26843545, 161061274)
      [] text = "0.2" -> F64(FALSE, 53687091, 53687092)
      [] text = "0.3" -> F64(FALSE, 80530636, 214748364)
      [] text = "0.7" -> F64(FALSE, 187904819, 53687088)

\* The bits below the 53-bit significand of a value of hi * Limb + lo units
F64Drop(hi) ==
    IF hi < 2^25 THEN 0 ELSE IF hi < 2^26 THEN 1 ELSE IF hi < 2^27 THEN 2
    ELSE IF hi < 2^28 THEN 3 ELSE IF hi < 2^29 THEN 4 ELSE 5

\* Round to nearest, ties to even, as every binary64 operation does
F64Round(neg, hi, lo) ==
    LET step == 2^F64Drop(hi)
        q == lo \div step
        r == lo % step
        up == \/ 2 * r > step
              \/ 2 * r = step /\ step > 1 /\ q % 2 = 1
        lo2 == (IF up THEN q + 1 ELSE q) * step
    IN  IF lo2 = Limb THEN F64(neg, hi + 1, 0) ELSE F64(neg, hi, lo2)

F64MagLess(x, y) == x.hi < y.hi \/ (x.hi = y.hi /\ x.lo < y.lo)

F64Neg(x) == IF x.hi = 0 /\ x.lo = 0 THEN x ELSE [x EXCEPT !.neg = ~x.neg]

\* x + y of Python floats and of SQLite's SUM
F64Add(x, y) ==
    IF x.neg = y.neg
    THEN LET lo == x.lo + y.lo
         IN  IF lo >= Limb THEN F64Round(x.neg, x.hi + y.hi + 1, lo - Limb)
             ELSE F64Round(x.neg, x.hi + y.hi, lo)
    ELSE IF x.hi = y.hi /\ x.lo = y.lo THEN F64Zero
    ELSE LET big == IF F64MagLess(x, y) THEN y ELSE x
             small == IF F64MagLess(x, y) THEN x ELSE y
             lo == big.lo - small.lo
         IN  IF lo < 0
             THEN F64Round(big.neg, big.hi - small.hi - 1, lo + Limb)
             ELSE F64Round(big.neg, big.hi - small.hi, lo)

F64Sub(x, y) == F64Add(x, F64Neg(y))

\* x < y
F64Less(x, y) ==
    IF x.neg # y.neg THEN x.neg
    ELSE IF x.neg THEN F64MagLess(y, x) ELSE F64MagLess(x, y)

\* max(0, x)
F64Max0(x) == IF x.neg THEN F64Zero ELSE x

RECURSIVE SqlSumQuantity(_, _, _)
\* SUM(CASE WHEN movement_type = ty THEN quantity ELSE 0 END) FROM movements
\* WHERE position_id = ?: the rows are read through idx_movements_position,
\* that is in rowid order, and each value is added to the running sum
SqlSumQuantity(ms, ty, acc) ==
    IF ms = {} THEN acc
    ELSE LET m == CHOOSE x \in ms : \A y \in ms : x.id <= y.id
         IN  SqlSumQuantity(ms \ {m}, ty,
                 IF m.movement_type = ty THEN F64Add(acc, m.quantity)
                 ELSE acc)

\* MovementDB._calculate_current_holdings on fractional quantities
fractional_current_holdings(ms) ==
    LET total_bought == SqlSumQuantity(ms, "buy", F64Zero)
        total_sold == SqlSumQuantity(ms, "sell", F64Zero)
    IN  F64Max0(F64Sub(total_bought, total_sold))

RECURSIVE ScanFractional(_, _)
\* The loop of get_position_holdings over rows of binary64 values:
\* total_quantity, total_cost and total_proceeds are Python floats and
\* every += and -= rounds its result
ScanFractional(rows, acc) ==
    IF rows = <<>> THEN acc
    ELSE LET movement == Head(rows)
         IN  IF movement.movement_type = "buy"
             THEN ScanFractional(Tail(rows),
                    [acc EXCEPT
                       !.total_quantity = F64Add(@, movement.quantity),
                       !.total_cost = F64Add(@, movement.total_amount)])
             ELSE ScanFractional(Tail(rows),
                    [acc EXCEPT
                       !.total_quantity = F64Sub(@, movement.quantity),
                       !.total_proceeds = F64Add(@, movement.total_amount)])

\* MovementDB.get_position_holdings on fractional quantities, the query
\* having returned rows: current_quantity, total_cost and total_proceeds
fractional_get_position_holdings(rows) ==
    LET acc == ScanFractional(rows,
                   [total_quantity |-> F64Zero, total_cost |-> F64Zero,
                    total_proceeds |-> F64Zero])
    IN  [current_quantity |-> F64Max0(acc.total_quantity),
         total_cost |-> acc.total_cost,
         total_proceeds |-> acc.total_proceeds]

\* current_quantity of MovementDB.get_position_holdings on fractional
\* quantities, the query having returned rows
fractional_current_quantity(rows) ==
    fractional_get_position_holdings(rows).current_quantity

\* MovementDB.create_movement on a fractional quantity of an existing
\* position, at price 1: total_amount = round(quantity * 1.0, 2), which for
\* the quantities of FractionInputs (one decimal) is the float of the
\* quantity
fractional_create_movement(f, movement_type, quantity, movement_datetime) ==
    IF /\ movement_type = "sell"
       /\ F64Less(fractional_current_holdings(f.movements), quantity)
    THEN [f EXCEPT !.status = "ValueError"]
    ELSE [movements |-> f.movements
                        \cup {[id |-> f.nextMovId,
                               movement_type |-> movement_type,
                               quantity |-> quantity,
                               total_amount |-> quantity,
                               movement_datetime |-> movement_datetime]},
          nextMovId |-> f.nextMovId + 1,
          status |-> "ok"]

\* ------------------------------------------------------------------------
\* services/investment_service.py
\* ------------------------------------------------------------------------

\* InvestmentService.create_movement: the position is looked up first
service_create_movement(ps, pn, ms, mn, r) ==
    IF ~(\E q \in ps : q.id = r.position_id)
    THEN InvOutcome("ValueError", NoneId, ps, pn, ms, mn)
    ELSE create_movement(ps, pn, ms, mn, r.position_id, r.movement_type,
                         r.quantity, r.price_per_unit, r.movement_datetime)

\* The empty dict returned for a position that is not stored
EmptySummary == [found |-> FALSE]

\* get_position_summary that clears the position's movements once read
get_position_summary_purging(ps, pn, ms, mn, rows, position_id) ==
    IF ~(\E q \in ps : q.id = position_id)
    THEN InvOutcome("ok", EmptySummary, ps, pn, ms, mn)
    ELSE InvOutcome("ok", get_position_holdings(rows, position_id), ps, pn,
                    {m \in ms : m.position_id # position_id}, mn)

\* InvestmentService.get_position_summary: the position, then the holdings
\* of MovementDB.get_position_holdings; both only read
get_position_summary(ps, pn, ms, mn, rows, position_id) ==
    IF ~(\E q \in ps : q.id = position_id)
    THEN InvOutcome("ok", EmptySummary, ps, pn, ms, mn)
    ELSE LET position == CHOOSE q \in ps : q.id = position_id
             holdings == get_position_holdings(rows, position_id)
         IN  InvOutcome("ok",
                 [position |-> position,
                  current_quantity |-> holdings.current_quantity,
                  total_cost |-> holdings.total_cost,
                  total_proceeds |-> holdings.total_proceeds,
                  average_cost_basis |-> holdings.average_cost_basis,
                  realized_pnl |-> holdings.realized_pnl,
                  fifo_lots |-> holdings.fifo_lots],
                 ps, pn, ms, mn)

\* ------------------------------------------------------------------------
\* server.py: the rate limiter
\* ------------------------------------------------------------------------

Clients == {"10.0.0.1", "10.0.0.2"}

\* The values of RATE_LIMIT_REQUESTS that _load_config reads with int()
LimitConfigs == (0 - 1)..MaxLimit

\* _check_rate_limit that records the request also when it rejects it
check_rate_limit_recording(lim, client_ip, current_time) ==
    IF client_ip \in lim.blocked_ips
    THEN [allowed |-> FALSE, request_counts |-> lim.request_counts,
          blocked_ips |-> lim.blocked_ips]
    ELSE LET cutoff_time == current_time - lim.RATE_LIMIT_WINDOW
             kept == SelectSeq(lim.request_counts[client_ip],
                               LAMBDA req_time : req_time > cutoff_time)
             max_requests == lim.RATE_LIMIT_REQUESTS
         IN  [allowed |-> Len(kept) < max_requests,
              request_counts |->
                  [lim.request_counts EXCEPT
                      ![client_ip] = Append(kept, current_time)],
              blocked_ips |->
                  IF Len(kept) >= max_requests /\ Len(kept) > max_requests * 2
                  THEN lim.blocked_ips \cup {client_ip}
                  ELSE lim.blocked_ips]

\* FinanceAPIHandler._check_rate_limit for a request of client_ip at
\* current_time: request_counts is a defaultdict of lists of timestamps
check_rate_limit(lim, client_ip, current_time) ==
    IF client_ip \in lim.blocked_ips
    THEN [allowed |-> FALSE, request_counts |-> lim.request_counts,
          blocked_ips |-> lim.blocked_ips]
    ELSE LET cutoff_time == current_time - lim.RATE_LIMIT_WINDOW
             kept == SelectSeq(lim.request_counts[client_ip],
                               LAMBDA req_time : req_time > cutoff_time)
             cleaned == [lim.request_counts EXCEPT ![client_ip] = kept]
             max_requests == lim.RATE_LIMIT_REQUESTS
         IN  IF Len(kept) >= max_requests
             THEN [allowed |-> FALSE, request_counts |-> cleaned,
                   blocked_ips |->
                       IF Len(kept) > max_requests * 2
                       THEN lim.blocked_ips \cup {client_ip}
                       ELSE lim.blocked_ips]
             ELSE [allowed |-> TRUE,
                   request_counts |->
                       [cleaned EXCEPT
                           ![client_ip] = Append(kept, current_time)],
                   blocked_ips |-> lim.blocked_ips]

\* The server before its first request: the limits the handler starts
\* from, the class attributes request_counts and blocked_ips empty
NoRequests ==
    [RATE_LIMIT_REQUESTS |-> MaxLimit, RATE_LIMIT_WINDOW |-> MaxWindow,
     time |-> 0,
     request_counts |-> [c \in Clients |-> <<>>],
     blocked_ips |-> {},
     last |-> [client_ip |-> None, allowed |-> TRUE, before |-> <<>>],
     rejected |-> {}]

\* _load_config: the limits the .env file gives replace the ones the
\* handler starts from; the file is the same for every later request
LoadConfig ==
    /\ limiter = NoRequests
    /\ \E m \in LimitConfigs, w \in 1..MaxWindow :
          limiter' = [limiter EXCEPT !.RATE_LIMIT_REQUESTS = m,
                                     !.RATE_LIMIT_WINDOW = w]
    /\ UNCHANGED <<cards, nextCardId, sections, nextSectionId, transactions,
                   nextTxId, pending, last>>
    /\ UNCHANGED invVars

\* do_GET, do_POST, do_PUT, do_DELETE: the rate limit is checked first
HandleRequest ==
    /\ \E c \in Clients :
          LET res == check_rate_limit(limiter, c, limiter.time)
          IN  limiter' = [limiter EXCEPT
                  !.request_counts = res.request_counts,
                  !.blocked_ips = res.blocked_ips,
                  !.last = [client_ip |-> c, allowed |-> res.allowed,
                            before |-> limiter.request_counts[c]],
                  !.rejected = IF res.allowed THEN @ ELSE @ \cup {c}]
    /\ UNCHANGED <<cards, nextCardId, sections, nextSectionId, transactions,
                   nextTxId, pending, last>>
    /\ UNCHANGED invVars

\* time.time() moves on
Tick ==
    /\ limiter.time < MaxTime
    /\ limiter' = [limiter EXCEPT !.time = @ + 1]
    /\ UNCHANGED <<cards, nextCardId, sections, nextSectionId, transactions,
                   nextTxId, pending, last>>
    /\ UNCHANGED invVars

\* ------------------------------------------------------------------------
\* Actions on the investment ledger
\* ------------------------------------------------------------------------

PosIdInputs == 1..(MaxPositions + 1)
\* (quantity, price, event time) of the buys: two lots of one event time at
\* different prices, later lots, and a buy whose total (3 * 0.145) ends in
\* 5 thousandths and whose float product lies below it
BuyInputs == {<<10, 100, 1>>, <<5, 200, 1>>, <<5, 200, 2>>, <<5, 100, 2>>,
              <<3, 145, 1>>}
\* (quantity, event time) of the sells, all at price 200
SellInputs == {<<5, 1>>, <<10, 2>>, <<12, 3>>}

MovementRequest(p, ty, q, pr, d) ==
    [position_id |-> p, movement_type |-> ty, quantity |-> q,
     price_per_unit |-> pr, movement_datetime |-> d]

\* Buys and sells on position 1, and one request for each way of being
\* rejected by the checks on the request itself
MovementRequests ==
    {MovementRequest(1, "buy", b[1], b[2], b[3]) : b \in BuyInputs}
    \cup {MovementRequest(1, "sell", q[1], 200, q[2]) : q \in SellInputs}
    \cup {MovementRequest(MaxPositions + 1, "buy", 5, 100, 1),
          MovementRequest(1, "hold", 5, 100, 1),
          MovementRequest(1, "buy", 0, 100, 1),
          MovementRequest(1, "buy", 5, 0, 1)}

\* The connections that run create_movement and create_position statement
\* by statement
Connections == {1, 2}
Idle == [pc |-> "idle"]

\* A connection has inserted its row (a movement or a position) and not
\* committed: it holds the write lock of the database.  An INSERT on
\* another connection waits for the lock, up to the timeout of
\* sqlite3.connect (5 seconds by default), and then raises
\* sqlite3.OperationalError: database is locked
WriteLocked ==
    \E o \in Connections : inflight[o].pc \in {"commit", "commit_position"}

ApplyInv(op, r, out, scan) ==
    /\ positions' = out.positions
    /\ nextPosId' = out.nextPosId
    /\ movements' = out.movements
    /\ nextMovId' = out.nextMovId
    /\ lastInv' = [op |-> op, req |-> r, status |-> out.status,
                   ret |-> out.ret, scan |-> scan,
                   positions_before |-> positions,
                   movements_before |-> movements]
    /\ UNCHANGED <<fractional, inflight>>
    /\ UNCHANGED txVars

\* InvestmentPositionDB.create_position run from its first statement to the
\* end of its with block while no other call is in progress
CreatePosition ==
    \E asset_type \in {"stock", "bond"}, symbol \in SymbolInputs :
        /\ nextPosId <= MaxPositions
        /\ \A c \in Connections : inflight[c].pc = "idle"
        /\ ApplyInv("create_position",
                    [asset_type |-> asset_type, symbol |-> symbol],
                    create_position(positions, nextPosId, movements, nextMovId,
                                    asset_type, symbol), <<>>)

CreateMovement ==
    \E r \in MovementRequests :
        /\ nextMovId <= MaxMovements
        /\ ApplyInv("create_movement", r,
                    create_movement(positions, nextPosId, movements, nextMovId,
                                    r.position_id, r.movement_type, r.quantity,
                                    r.price_per_unit, r.movement_datetime),
                    <<>>)

DeleteMovement ==
    \E id \in 1..MaxMovements :
        ApplyInv("delete_movement", [movement_id |-> id],
                 delete_movement(positions, nextPosId, movements, nextMovId,
                                 id), <<>>)

\* (quantity, price_per_unit, movement_datetime) of an update, each given or
\* not: nothing, an invalid quantity, a smaller and a larger quantity, an
\* invalid price, a new price with a new event time
UpdateInputs ==
    {<<<<>>, <<>>, <<>>>>, <<<<0>>, <<>>, <<>>>>, <<<<3>>, <<>>, <<>>>>,
     <<<<12>>, <<>>, <<>>>>, <<<<>>, <<0>>, <<>>>>, <<<<>>, <<150>>, <<1>>>>}

UpdateMovement ==
    \E id \in 1..MaxMovements, u \in UpdateInputs :
        ApplyInv("update_movement",
                 [movement_id |-> id, quantity |-> u[1],
                  price_per_unit |-> u[2], movement_datetime |-> u[3]],
                 update_movement(positions, nextPosId, movements, nextMovId,
                                 id, u[1], u[2], u[3]), <<>>)

\* A read: the stored rows are left as they are and the result is recorded
GetPositionHoldings ==
    \E p \in PosIdInputs :
        \E rows \in ScanOrders({m \in movements : m.position_id = p}) :
            ApplyInv("get_position_holdings", [position_id |-> p],
                     InvOutcome("ok", get_position_holdings(rows, p),
                                positions, nextPosId, movements, nextMovId),
                     rows)

UpdatePosition ==
    \E id \in PosIdInputs, symbol \in SymbolInputs \cup {None} :
        ApplyInv("update_position", [position_id |-> id, symbol |-> symbol],
                 update_position(positions, nextPosId, movements, nextMovId,
                                 id, symbol), <<>>)

DeletePosition ==
    \E id \in PosIdInputs :
        ApplyInv("delete_position", [position_id |-> id],
                 delete_position(positions, nextPosId, movements, nextMovId,
                                 id), <<>>)

\* A buy and a later sell for each position id, stored or not
PortfolioMovementRequests ==
    {MovementRequest(p, "buy", 5, 100, 1) : p \in PosIdInputs}
    \cup {MovementRequest(p, "sell", 5, 200, 2) : p \in PosIdInputs}

ServiceCreateMovement ==
    \E r \in PortfolioMovementRequests :
        /\ nextMovId <= MaxMovements
        /\ ApplyInv("service_create_movement", r,
                    service_create_movement(positions, nextPosId, movements,
                                            nextMovId, r), <<>>)

GetPositionSummary ==
    \E p \in PosIdInputs :
        \E rows \in ScanOrders({m \in movements : m.position_id = p}) :
            ApplyInv("get_position_summary", [position_id |-> p],
                     get_position_summary(positions, nextPosId, movements,
                                          nextMovId, rows, p),
                     rows)

\* InvestmentPositionDB.get_position_summary
GetPositionDbSummary ==
    \E p \in PosIdInputs :
        ApplyInv("position_db_summary", [position_id |-> p],
                 InvOutcome("ok", position_db_summary(positions, movements, p),
                            positions, nextPosId, movements, nextMovId),
                 <<>>)

\* ---- create_movement statement by statement ----
\* Two requests, each on the connection _get_connection opens for it.  The
\* SELECTs run outside a transaction; the INSERT opens one, which takes the
\* write lock of the database, and leaving the with block commits it.

StepInflight(c, next) ==
    /\ inflight' = [inflight EXCEPT ![c] = next]
    /\ UNCHANGED <<positions, nextPosId, movements, nextMovId, lastInv,
                   fractional>>
    /\ UNCHANGED txVars

\* The call starts: Movement.__post_init__ validates the arguments
BeginCreateMovement ==
    \E c \in Connections, r \in PortfolioMovementRequests :
        /\ inflight[c].pc = "idle"
        /\ StepInflight(c,
               IF MovementValid(r.movement_type, r.quantity, r.price_per_unit)
               THEN [pc |-> "find_position", req |-> r]
               ELSE Idle)

\* SELECT id FROM investment_positions WHERE id = ?
FindPosition ==
    \E c \in Connections :
        /\ inflight[c].pc = "find_position"
        /\ StepInflight(c,
               IF \E q \in positions : q.id = inflight[c].req.position_id
               THEN [inflight[c] EXCEPT
                       !.pc = IF inflight[c].req.movement_type = "sell"
                              THEN "check_holdings" ELSE "insert"]
               ELSE Idle)

\* _calculate_current_holdings on the committed rows, then the comparison
CheckHoldings ==
    \E c \in Connections :
        /\ inflight[c].pc = "check_holdings"
        /\ StepInflight(c,
               IF calculate_current_holdings(movements,
                      inflight[c].req.position_id) < inflight[c].req.quantity
               THEN Idle
               ELSE [inflight[c] EXCEPT !.pc = "insert"])

\* INSERT INTO movements: the row takes the next id and is not visible to
\* the others yet.  While another connection holds the write lock the
\* statement waits, and when the wait times out the call ends with
\* OperationalError and nothing stored
InsertMovement ==
    \E c \in Connections :
        /\ inflight[c].pc = "insert"
        /\ IF WriteLocked
           THEN /\ inflight' = [inflight EXCEPT ![c] = Idle]
                /\ UNCHANGED nextMovId
           ELSE /\ nextMovId <= MaxMovements
                /\ LET r == inflight[c].req
                   IN  inflight' = [inflight EXCEPT ![c] =
                           [pc |-> "commit", req |-> r,
                            row |-> [id |-> nextMovId,
                                     position_id |-> r.position_id,
                                     movement_type |-> r.movement_type,
                                     quantity |-> r.quantity,
                                     price_per_unit |-> r.price_per_unit,
                                     total_amount |->
                                         Round2(r.quantity, r.price_per_unit),
                                     movement_datetime |->
                                         r.movement_datetime]]]
                /\ nextMovId' = nextMovId + 1
        /\ UNCHANGED <<positions, nextPosId, movements, lastInv, fractional>>
        /\ UNCHANGED txVars

\* The with block is left: the transaction commits
CommitMovement ==
    \E c \in Connections :
        /\ inflight[c].pc = "commit"
        /\ movements' = movements \cup {inflight[c].row}
        /\ inflight' = [inflight EXCEPT ![c] = Idle]
        /\ UNCHANGED <<positions, nextPosId, nextMovId, lastInv, fractional>>
        /\ UNCHANGED txVars

\* ---- create_position statement by statement ----
\* The call of connection c ends: its outcome is the last one recorded
EndCreatePosition(c, status, ret) ==
    /\ inflight' = [inflight EXCEPT ![c] = Idle]
    /\ lastInv' = [op |-> "create_position", req |-> inflight[c].req,
                   status |-> status, ret |-> ret, scan |-> <<>>,
                   positions_before |-> positions,
                   movements_before |-> movements]

\* The call starts: InvestmentPosition.__post_init__ validates asset_type
\* and symbol and normalises the symbol
BeginCreatePosition ==
    \E c \in Connections, asset_type \in {"stock", "bond"},
       symbol \in SymbolInputs :
        /\ inflight[c].pc = "idle"
        /\ nextPosId <= MaxPositions
        /\ inflight' = [inflight EXCEPT ![c] =
               IF asset_type \in {"stock", "crypto"}
                  /\ StripUpper(symbol) # ""
               THEN [pc |-> "find_duplicate",
                     req |-> [asset_type |-> asset_type,
                              symbol |-> StripUpper(symbol)]]
               ELSE Idle]
        /\ UNCHANGED <<positions, nextPosId, movements, nextMovId, lastInv,
                       fractional>>
        /\ UNCHANGED txVars

\* SELECT id FROM investment_positions WHERE asset_type = ? AND symbol = ?
\* on the committed rows; a row found is a ValueError
FindDuplicate ==
    \E c \in Connections :
        /\ inflight[c].pc = "find_duplicate"
        /\ IF \E q \in positions :
                  /\ q.asset_type = inflight[c].req.asset_type
                  /\ q.symbol = inflight[c].req.symbol
           THEN EndCreatePosition(c, "ValueError", NoneId)
           ELSE /\ inflight' = [inflight EXCEPT ![c].pc = "insert_position"]
                /\ UNCHANGED lastInv
        /\ UNCHANGED <<positions, nextPosId, movements, nextMovId,
                       fractional>>
        /\ UNCHANGED txVars

\* INSERT INTO investment_positions: while another connection holds the
\* write lock the statement waits, and when the wait times out the call
\* ends with OperationalError; a row of the same (asset_type, symbol)
\* committed since the SELECT breaks UNIQUE(asset_type, symbol) and the call
\* ends with IntegrityError; otherwise the row takes the next id and is not
\* visible to the others yet
InsertPosition ==
    \E c \in Connections :
        /\ inflight[c].pc = "insert_position"
        /\ IF WriteLocked
           THEN /\ EndCreatePosition(c, "OperationalError", NoneId)
                /\ UNCHANGED nextPosId
           ELSE IF \E q \in positions :
                       /\ q.asset_type = inflight[c].req.asset_type
                       /\ q.symbol = inflight[c].req.symbol
           THEN /\ EndCreatePosition(c, "IntegrityError", NoneId)
                /\ UNCHANGED nextPosId
           ELSE /\ nextPosId <= MaxPositions
                /\ inflight' = [inflight EXCEPT ![c] =
                       [pc |-> "commit_position", req |-> inflight[c].req,
                        row |-> [id |-> nextPosId,
                                 asset_type |-> inflight[c].req.asset_type,
                                 symbol |-> inflight[c].req.symbol]]]
                /\ nextPosId' = nextPosId + 1
                /\ UNCHANGED lastInv
        /\ UNCHANGED <<positions, movements, nextMovId, fractional>>
        /\ UNCHANGED txVars

\* SELECT of the inserted row, then the with block is left: the
\* transaction commits and the position is returned
CommitPosition ==
    \E c \in Connections :
        /\ inflight[c].pc = "commit_position"
        /\ positions' = positions \cup {inflight[c].row}
        /\ EndCreatePosition(c, "ok", inflight[c].row.id)
        /\ UNCHANGED <<nextPosId, movements, nextMovId, fractional>>
        /\ UNCHANGED txVars

FractionInputs == {"0.1", "0.2", "0.3", "0.7"}

\* MovementDB.create_movement with a fractional quantity
CreateFractionalMovement ==
    /\ fractional.nextMovId <= MaxMovements
    /\ \E ty \in {"buy", "sell"}, q \in FractionInputs, d \in 1..2 :
        fractional' = fractional_create_movement(fractional, ty, F64Of(q), d)
    /\ UNCHANGED <<positions, nextPosId, movements, nextMovId, lastInv,
                   inflight>>
    /\ UNCHANGED txVars

NoOp == [op |-> "none", req |-> [id |-> NoneId], status |-> "ok",
         ret |-> NoneId, http |-> 0, added |-> {}, removed |-> {},
         gone |-> {}]

Init ==
    /\ limiter = NoRequests
    /\ cards = {}
    /\ nextCardId = 1
    /\ sections = {}
    /\ nextSectionId = 1
    /\ transactions = {}
    /\ nextTxId = 1
    /\ pending = NoTransfer
    /\ last = NoOp
    /\ positions = {}
    /\ nextPosId = 1
    /\ movements = {}
    /\ nextMovId = 1
    /\ lastInv = [op |-> "none", req |-> [id |-> NoneId], status |-> "ok",
                  ret |-> NoneId, scan |-> <<>>,
                  positions_before |-> {}, movements_before |-> {}]
    /\ fractional = [movements |-> {}, nextMovId |-> 1, status |-> "ok"]
    /\ inflight = [c \in Connections |-> Idle]

\* The service layer
Next ==
    \/ CreateCard
    \/ ServiceCreate
    \/ ServiceUpdate
    \/ ServiceDelete

Spec == Init /\ [][Next]_vars

\* The HTTP layer
NextApi ==
    \/ CreateCard
    \/ ApiCreate
    \/ ApiUpdate
    \/ ApiDelete

SpecApi == Init /\ [][NextApi]_vars

\* The model class used on its own: Transaction.create_internal_transfer
NextRecord ==
    \/ CreateCard
    \/ ModelCreateInternalTransfer
    \/ ModelSaveCredit
    \/ ModelDelete

SpecRecord == Init /\ [][NextRecord]_vars

\* The cards with their sections
NextCards ==
    \/ CreateCard
    \/ CreateSection
    \/ UpdateSection
    \/ DeleteSection
    \/ DeleteCard

SpecCards == Init /\ [][NextCards]_vars

\* The ledger of one position whose quantities are fractions
NextFractional ==
    \/ CreateFractionalMovement

SpecFractional == Init /\ [][NextFractional]_vars

\* The ledger under create, update and delete of movements
NextEdit ==
    \/ CreatePosition
    \/ ServiceCreateMovement
    \/ UpdateMovement
    \/ DeleteMovement

SpecEdit == Init /\ [][NextEdit]_vars

\* Several transfers stored side by side
NextTransfers ==
    \/ CreateCard
    \/ TransferCreate
    \/ TransferDelete

SpecTransfers == Init /\ [][NextTransfers]_vars

\* Two create_movement calls interleaved statement by statement
NextInterleaved ==
    \/ BeginCreatePosition
    \/ FindDuplicate
    \/ InsertPosition
    \/ CommitPosition
    \/ BeginCreateMovement
    \/ FindPosition
    \/ CheckHoldings
    \/ InsertMovement
    \/ CommitMovement

SpecInterleaved == Init /\ [][NextInterleaved]_vars

\* The rate limiter under requests of two clients
NextLimiter ==
    \/ LoadConfig
    \/ HandleRequest
    \/ Tick

SpecLimiter == Init /\ [][NextLimiter]_vars

\* The ledger under create_position and create_movement alone
NextAppend ==
    \/ CreatePosition
    \/ CreateMovement

SpecAppend == Init /\ [][NextAppend]_vars

\* The transaction list read page by page
NextList ==
    \/ CreateCard
    \/ ServiceCreate
    \/ ServiceDelete
    \/ GetAllTransactions

SpecList == Init /\ [][NextList]_vars

\* The investment ledger
NextInv ==
    \/ CreatePosition
    \/ CreateMovement
    \/ DeleteMovement
    \/ GetPositionHoldings
    \/ GetPositionSummary
    \/ GetPositionDbSummary

SpecInv == Init /\ [][NextInv]_vars

\* The positions with their movements, through InvestmentService
NextPortfolio ==
    \/ CreatePosition
    \/ UpdatePosition
    \/ DeletePosition
    \/ ServiceCreateMovement
    \/ DeleteMovement

SpecPortfolio == Init /\ [][NextPortfolio]_vars

\* ------------------------------------------------------------------------
\* Properties of the transaction store
\* ------------------------------------------------------------------------

\* The rows of table transactions before the last operation
PreTransactions == (transactions \ last.added) \cup last.removed

SameTransfer(a, b) ==
    /\ a.transfer_from_type = b.transfer_from_type
    /\ a.transfer_from_id = b.transfer_from_id
    /\ a.transfer_to_type = b.transfer_to_type
    /\ a.transfer_to_id = b.transfer_to_id
    /\ a.transaction_date = b.transaction_date

\* d is the debit record and c the credit record of one transfer
IsPair(d, c) ==
    /\ d.id # c.id
    /\ d.is_internal_transfer /\ c.is_internal_transfer
    /\ d.amount < 0 /\ c.amount > 0 /\ c.amount = 0 - d.amount
    /\ SameTransfer(d, c)

\* C1: in every reachable state the stored internal-transfer records can be
\* partitioned into pairs of one negative and one positive record of equal
\* magnitude with the same endpoints and date; no unpaired record exists.
C1_TransfersPaired ==
    LET T == {t \in transactions : t.is_internal_transfer}
    IN  \E m \in [T -> T] :
            \A t \in T : /\ m[m[t]] = t
                         /\ IsPair(t, m[t]) \/ IsPair(m[t], t)

\* C2: a successful create_transaction with is_internal_transfer adds
\* exactly two records and nothing else: a debit of -|a| and a credit of
\* +|a|, both flagged as transfers, with the request's endpoints and date;
\* card_id is the side's id when the side's type is 'card', none otherwise.
C2_TransferCreatesPair ==
    (last.op = "create" /\ last.req.is_internal_transfer /\ last.status = "ok")
    => /\ last.removed = {}
       /\ \E d \in last.added, c \in last.added :
            /\ d # c
            /\ last.added = {d, c}
            /\ d.amount = 0 - Abs(last.req.amount)
            /\ c.amount = Abs(last.req.amount)
            /\ \A t \in {d, c} : /\ t.is_internal_transfer
                                 /\ SameTransfer(t, last.req)
            /\ d.card_id = IF last.req.transfer_from_type = "card"
                           THEN last.req.transfer_from_id ELSE NoneId
            /\ c.card_id = IF last.req.transfer_to_type = "card"
                           THEN last.req.transfer_to_id ELSE NoneId

\* A transfer of a negative amount between two existing cards has succeeded
C2_Witness ==
    /\ last.op = "create" /\ last.req.is_internal_transfer
    /\ last.status = "ok"
    /\ last.req.amount < 0
    /\ last.req.transfer_from_type = "card"
    /\ last.req.transfer_to_type = "card"
    /\ Cardinality(last.added) = 2

\* C3: a successful delete_transaction on the id of either record of an
\* internal-transfer pair leaves neither record of that pair stored.
C3_DeleteRemovesBoth ==
    (last.op = "delete" /\ last.status = "ok" /\ last.ret = TRUE)
    => \A d \in PreTransactions, c \in PreTransactions :
           (IsPair(d, c) /\ last.req.id \in {d.id, c.id})
           => \A t \in transactions : t.id \notin {d.id, c.id}

\* A pair has been deleted through the id of its credit record while
\* another record stays stored
C3_Witness ==
    /\ last.op = "delete" /\ last.status = "ok" /\ last.ret = TRUE
    /\ \E d \in last.removed, c \in last.removed :
           IsPair(d, c) /\ last.req.id = c.id
    /\ transactions # {}

\* C4: creating an internal-transfer pair is all-or-nothing: when the
\* operation fails, the store is exactly as before it.
C4_AllOrNothing ==
    (last.op \in {"create", "create_internal_transfer"} /\ last.status # "ok")
    => last.added = {} /\ last.removed = {}

\* C5: update_transaction on a record flagged as internal transfer is
\* rejected with a validation error whatever fields are supplied, and no
\* record (the target, its sibling, any other) is changed.
C5_TransferUpdateRejected ==
    (/\ last.op = "update"
     /\ \E t \in PreTransactions :
            t.id = last.req.id /\ t.is_internal_transfer)
    => /\ last.status = "ValueError"
       /\ last.added = {}
       /\ last.removed = {}

\* An update of amount and date of a stored transfer record was rejected
C5_Witness ==
    /\ last.op = "update" /\ last.status = "ValueError"
    /\ last.req.u.amount # <<>>
    /\ \E d \in transactions, c \in transactions :
           IsPair(d, c) /\ last.req.id = d.id

\* C6: a transfer request whose source equals its destination is rejected
\* with a validation error and creates no record.
C6_SelfTransferRejected ==
    (/\ last.op = "create" /\ last.req.is_internal_transfer
     /\ last.req.transfer_from_type = last.req.transfer_to_type
     /\ last.req.transfer_from_id = last.req.transfer_to_id)
    => last.status = "ValueError" /\ last.added = {}

\* C7: a transfer request in which a side of type 'card' names a card that
\* does not exist is rejected with a validation error before any write,
\* whichever side holds the missing card.
C7_MissingCardRejected ==
    (/\ last.op = "create" /\ last.req.is_internal_transfer
     /\ AllTransferFields(last.req)
     /\ \/ (last.req.transfer_from_type = "card"
            /\ last.req.transfer_from_id \notin cards)
        \/ (last.req.transfer_to_type = "card"
            /\ last.req.transfer_to_id \notin cards))
    => last.status = "ValueError" /\ last.added = {}

\* A request lacks one of the four transfer fields or names a type outside
\* {card, cash, stock, crypto}
Malformed(r) ==
    \/ r.transfer_from_type = None \/ r.transfer_from_id = NoneId
    \/ r.transfer_to_type = None \/ r.transfer_to_id = NoneId
    \/ r.transfer_from_type \notin ValidTypes
    \/ r.transfer_to_type \notin ValidTypes

\* C8: in every reachable state, a transfer request that lacks one of the
\* four transfer fields or whose from/to type is outside the valid set is
\* rejected with a validation error (ValueError by the service, status 400
\* by the HTTP handler) and creates no record.
C8_MalformedTransferRejected ==
    \A r \in TransferRequests :
        Malformed(r)
        => LET s == create_transaction(transactions, nextTxId, cards,
                                       sections, r)
               a == api_create_transaction(transactions, nextTxId, cards,
                                           sections, r)
           IN  /\ s.status = "ValueError"
               /\ s.transactions = transactions
               /\ a.http = 400
               /\ a.out.transactions = transactions

\* A request with a type outside the valid set was rejected while records
\* are stored
C8_Witness ==
    /\ last.op = "create" /\ last.req.is_internal_transfer
    /\ last.req.transfer_from_type = "bank"
    /\ last.status = "ValueError"
    /\ last.added = {}
    /\ transactions # {}

\* C9: delete_transaction on an internal-transfer record whose sibling is
\* not stored never reports success.
C9_HalfPairDeleteFails ==
    (/\ last.op = "delete"
     /\ \E t \in PreTransactions :
            /\ t.id = last.req.id
            /\ t.is_internal_transfer
            /\ ~(\E x \in PreTransactions : IsPair(t, x) \/ IsPair(x, t)))
    => ~(last.status = "ok" /\ last.ret = TRUE)

\* ------------------------------------------------------------------------
\* Properties of the investment ledger
\* ------------------------------------------------------------------------

\* The units of one buy: its index in the scan and its price, once per unit
UnitsOf(i, m) == [k \in 1..m.quantity |-> <<i, m.price_per_unit>>]

RECURSIVE UnitScan(_, _, _)
\* Unit by unit: a buy appends its units, a sell removes the oldest units
UnitScan(rows, i, units) ==
    IF i > Len(rows) THEN units
    ELSE IF rows[i].movement_type = "buy"
    THEN UnitScan(rows, i + 1, units \o UnitsOf(i, rows[i]))
    ELSE LET n == IF rows[i].quantity < Len(units)
                  THEN rows[i].quantity ELSE Len(units)
         IN  UnitScan(rows, i + 1, SubSeq(units, n + 1, Len(units)))

\* The open lots of the units left: per buy with units left, in scan order,
\* the number of units left and their price
UnitLots(rows) ==
    LET units == UnitScan(rows, 1, <<>>)
        buys == {units[k][1] : k \in 1..Len(units)}
        count(i) == Cardinality({k \in 1..Len(units) : units[k][1] = i})
        RECURSIVE lots(_)
        lots(i) == IF i > Len(rows) THEN <<>>
                   ELSE IF i \in buys
                   THEN <<[remaining |-> count(i),
                           price |-> rows[i].price_per_unit]>> \o lots(i + 1)
                   ELSE lots(i + 1)
    IN  lots(1)

MovementsOf(ms, p) == {m \in ms : m.position_id = p}
HeldQty(ms, p) ==
    LET qty(ty) == SumQty({m \in MovementsOf(ms, p) : m.movement_type = ty}, ty)
    IN  qty("buy") - qty("sell")

\* C11: create_movement of a sell whose quantity exceeds the position's
\* current holdings is rejected with an error, and the stored movements are
\* the same before and after the rejected call.
C11_OversellRejected ==
    (/\ lastInv.op = "create_movement"
     /\ lastInv.req.movement_type = "sell"
     /\ lastInv.req.quantity
          > HeldQty(lastInv.movements_before, lastInv.req.position_id))
    => /\ lastInv.status = "ValueError"
       /\ movements = lastInv.movements_before
       /\ positions = lastInv.positions_before

\* A sell of more than the units left after a buy and a sell was rejected
C11_Witness ==
    /\ lastInv.op = "create_movement"
    /\ lastInv.req.movement_type = "sell"
    /\ lastInv.status = "ValueError"
    /\ HeldQty(movements, lastInv.req.position_id) > 0
    /\ lastInv.req.quantity > HeldQty(movements, lastInv.req.position_id)
    /\ \E m \in movements : m.movement_type = "sell"
    /\ movements = lastInv.movements_before

\* The running quantity after the first k rows of a scan
RunningQty(rows, k) ==
    HeldQty({rows[i] : i \in 1..k}, rows[1].position_id)

\* C12: after any sequence of accepted create_movement calls, with the
\* stored movements of a position ordered by event time, the running
\* quantity (buys minus sells) after every prefix is >= 0.
C12_RunningNonNegative ==
    \A p \in PosIdInputs :
        \A rows \in ScanOrders(MovementsOf(movements, p)) :
            \A k \in 1..Len(rows) : RunningQty(rows, k) >= 0

RECURSIVE SumAmount(_)
\* The sum of total_amount over a set of movements
SumAmount(ms) ==
    IF ms = {} THEN 0
    ELSE LET m == CHOOSE x \in ms : TRUE
         IN  m.total_amount + SumAmount(ms \ {m})

\* Every order in which the movements ms can be listed
AllOrders(ms) ==
    {rows \in [1..Cardinality(ms) -> ms] :
        \A i, j \in 1..Cardinality(ms) : rows[i] = rows[j] => i = j}

RECURSIVE ExactSum(_)
\* The sum of total_amount over a set of movements of binary64 amounts, as
\* a number: limb by limb with the carry, nothing rounded
ExactSum(ms) ==
    IF ms = {} THEN F64Zero
    ELSE LET m == CHOOSE x \in ms : TRUE
             rest == ExactSum(ms \ {m})
             lo == rest.lo + m.total_amount.lo
         IN  IF lo >= Limb
             THEN F64(FALSE, rest.hi + m.total_amount.hi + 1, lo - Limb)
             ELSE F64(FALSE, rest.hi + m.total_amount.hi, lo)

\* The binary64 value nearest to the sum of total_amount over ms
NearestSum(ms) ==
    LET sum == ExactSum(ms)
    IN  F64Round(FALSE, sum.hi, sum.lo)

\* C13: get_position_holdings returns total_cost equal to the sum of
\* total_amount over the buy movements of the position and total_proceeds
\* equal to the sum of total_amount over its sell movements, whatever the
\* order in which the movements are scanned.  The totals are floats: equal
\* to the sum is read as being the float nearest to it.
C13_TotalsAreSums ==
    LET mine == fractional.movements
        cost == NearestSum({m \in mine : m.movement_type = "buy"})
        proceeds == NearestSum({m \in mine : m.movement_type = "sell"})
    IN  \A rows \in AllOrders(mine) :
            LET h == fractional_get_position_holdings(rows)
            IN  h.total_cost = cost /\ h.total_proceeds = proceeds

RECURSIVE SoldCost(_, _, _)
\* Unit by unit: the prices of the units that the sells of rows removed,
\* summed; units is the sequence of prices of the units held before row i
SoldCost(rows, i, units) ==
    IF i > Len(rows) THEN 0
    ELSE IF rows[i].movement_type = "buy"
    THEN SoldCost(rows, i + 1,
                  units \o [k \in 1..rows[i].quantity |->
                               rows[i].price_per_unit])
    ELSE LET n == IF rows[i].quantity < Len(units)
                  THEN rows[i].quantity ELSE Len(units)
             RECURSIVE sum(_)
             sum(k) == IF k = 0 THEN 0 ELSE units[k] + sum(k - 1)
         IN  sum(n) + SoldCost(rows, i + 1, SubSeq(units, n + 1, Len(units)))

RECURSIVE OpenValue(_, _)
\* remaining * price summed over the lots k..Len(lots)
OpenValue(lots, k) ==
    IF k > Len(lots) THEN 0
    ELSE lots[k].remaining * lots[k].price + OpenValue(lots, k + 1)

\* C14: realized_pnl returned by get_position_holdings equals
\* total_proceeds - (total_cost - sum of remaining * price over the open
\* lots), which is the sell proceeds minus the FIFO cost basis of the units
\* sold (each unit a sell consumed, at the price of its lot).
C14_RealizedPnl ==
    lastInv.op = "get_position_holdings"
    => LET h == lastInv.ret
           sells == {m \in MovementsOf(movements, lastInv.req.position_id) :
                        m.movement_type = "sell"}
       IN  /\ h.realized_pnl
                = h.total_proceeds - (h.total_cost - OpenValue(h.fifo_lots, 1))
           /\ h.realized_pnl
                = SumAmount(sells) - SoldCost(lastInv.scan, 1, <<>>)

\* C15: the holdings computation is deterministic in the stored ledger:
\* the movements are scanned in ascending event time, movements of the same
\* event time in record-creation order, and every evaluation over the same
\* stored movements yields the same result.
C15_DeterministicScan ==
    lastInv.op = "get_position_holdings"
    => LET rows == lastInv.scan
           mine == MovementsOf(movements, lastInv.req.position_id)
       IN  /\ {rows[i] : i \in 1..Len(rows)} = mine
           /\ \A i, j \in 1..Len(rows) :
                  i < j => \/ rows[i].movement_datetime
                               < rows[j].movement_datetime
                           \/ /\ rows[i].movement_datetime
                                    = rows[j].movement_datetime
                              /\ rows[i].id < rows[j].id
           /\ \A again \in ScanOrders(mine) :
                  get_position_holdings(again, lastInv.req.position_id)
                    = lastInv.ret

\* C16: get_position_holdings and get_position_summary have no side
\* effects: the positions and movements stored before the call are exactly
\* those stored after it, for every position id.
C16_ReadsHaveNoEffect ==
    lastInv.op \in {"get_position_holdings", "get_position_summary"}
    => /\ positions = lastInv.positions_before
       /\ movements = lastInv.movements_before

\* A summary was read for a stored position that has movements
C16_Witness ==
    /\ lastInv.op = "get_position_summary"
    /\ lastInv.ret # EmptySummary
    /\ lastInv.scan # <<>>
    /\ movements = lastInv.movements_before

\* C17: in every state reachable through create_position, update_position
\* and delete_position no two stored positions have the same (asset_type,
\* upper-cased trimmed symbol), every stored symbol being in that form; a
\* create or a symbol update that would make a duplicate is rejected and
\* leaves the stored positions unchanged.
C17_PositionsUnique ==
    /\ \A a \in positions, b \in positions :
           (a.asset_type = b.asset_type /\ a.symbol = b.symbol) => a = b
    /\ \A a \in positions : StripUpper(a.symbol) = a.symbol
    /\ (/\ lastInv.op \in {"create_position", "update_position"}
        /\ lastInv.req.symbol # None
        /\ \E q \in lastInv.positions_before :
               /\ q.symbol = StripUpper(lastInv.req.symbol)
               /\ IF lastInv.op = "create_position"
                  THEN q.asset_type = lastInv.req.asset_type
                  ELSE \E e \in lastInv.positions_before :
                           /\ e.id = lastInv.req.position_id
                           /\ e.id # q.id
                           /\ e.asset_type = q.asset_type)
       => /\ lastInv.status = "ValueError"
          /\ positions = lastInv.positions_before

\* With two positions stored, an update of the symbol of the second to the
\* symbol of the first, written in lower case, was rejected
C17_Witness ==
    /\ lastInv.op = "update_position"
    /\ lastInv.status = "ValueError"
    /\ lastInv.req.symbol = "aapl"
    /\ Cardinality(positions) = 2
    /\ \E q \in positions :
           q.id # lastInv.req.position_id /\ q.symbol = "AAPL"

\* C18: every stored movement references a stored position: delete_position
\* removes the movements of the position together with it, and
\* create_movement stores no movement for a position id that is not stored.
C18_MovementsHavePosition ==
    /\ \A m \in movements : \E q \in positions : q.id = m.position_id
    /\ (lastInv.op = "delete_position" /\ lastInv.ret = TRUE)
       => /\ ~(\E q \in positions : q.id = lastInv.req.position_id)
          /\ ~(\E m \in movements : m.position_id = lastInv.req.position_id)
    /\ (/\ lastInv.op = "service_create_movement"
        /\ ~(\E q \in lastInv.positions_before :
                 q.id = lastInv.req.position_id))
       => lastInv.status = "ValueError" /\ movements = lastInv.movements_before

\* A position with movements was deleted while another position keeps its
\* movements
C18_Witness ==
    /\ lastInv.op = "delete_position" /\ lastInv.ret = TRUE
    /\ \E m \in lastInv.movements_before :
           m.position_id = lastInv.req.position_id
    /\ movements # {}

\* C19: a create_movement request with a movement_type outside {buy, sell},
\* a quantity <= 0, a price_per_unit <= 0 or a position_id that is not
\* stored returns an error and leaves the stored movements unchanged.
C19_InvalidMovementRejected ==
    (/\ lastInv.op = "create_movement"
     /\ \/ lastInv.req.movement_type \notin {"buy", "sell"}
        \/ lastInv.req.quantity <= 0
        \/ lastInv.req.price_per_unit <= 0
        \/ ~(\E q \in lastInv.positions_before :
                 q.id = lastInv.req.position_id))
    => /\ lastInv.status = "ValueError"
       /\ movements = lastInv.movements_before
       /\ positions = lastInv.positions_before

\* A request with price_per_unit 0 was rejected on a ledger with movements
C19_Witness ==
    /\ lastInv.op = "create_movement"
    /\ lastInv.req.price_per_unit = 0
    /\ lastInv.status = "ValueError"
    /\ movements # {}
    /\ movements = lastInv.movements_before

\* The items of one page of the list L, from the offsets alone
PageOf(L, page, limit) ==
    LET lo == (page - 1) * limit
        hi == IF page * limit < Len(L) THEN page * limit ELSE Len(L)
    IN  [i \in 1..(IF hi > lo THEN hi - lo ELSE 0) |-> L[lo + i]]

\* C20: for the list of n stored transactions, every page >= 1 and limit
\* >= 1, get_all_transactions returns exactly the items at the offsets
\* [(page-1)*limit, min(page*limit, n)) of the list, at most limit of them,
\* with has_next true exactly when page*limit < n; the pages 1, 2, ...
\* of one limit together hold every transaction exactly once.
C20_Pagination ==
    (last.op = "get_all" /\ last.req.page >= 1 /\ last.req.limit >= 1)
    => LET L == DB_get_all_transactions(transactions)
           n == Len(L)
           page == last.req.page
           limit == last.req.limit
           items(p) == get_all_transactions(transactions, p, limit).transactions
       IN  /\ last.ret.transactions = PageOf(L, page, limit)
           /\ Len(last.ret.transactions) <= limit
           /\ last.ret.has_next <=> (page * limit < n)
           /\ last.ret.total = n
           /\ \A t \in transactions :
                  Cardinality({<<p, i>> \in (1..(n + 1)) \X (1..limit) :
                                  i <= Len(items(p)) /\ items(p)[i] = t}) = 1

\* The second page of size 2 of a list of 3: one item and no next page
C20_Witness ==
    /\ last.op = "get_all"
    /\ last.req.page = 2 /\ last.req.limit = 2
    /\ last.ret.total = 3
    /\ Len(last.ret.transactions) = 1
    /\ ~last.ret.has_next

\* ------------------------------------------------------------------------
\* Further properties of the transaction store
\* ------------------------------------------------------------------------

\* C21: an accepted update of a non-transfer transaction changes at most
\* amount, description, transaction_date and category: its id, card_id,
\* section_id, is_internal_transfer flag and the four transfer fields are
\* as before, also when the request body supplies values for them, and no
\* other transaction is changed.
C21_UpdateFrame ==
    (last.op = "PUT" /\ last.http = 200)
    => \E old \in PreTransactions, new \in transactions :
           /\ old.id = last.req.id /\ new.id = last.req.id
           /\ transactions \ {new} = PreTransactions \ {old}
           /\ new.card_id = old.card_id
           /\ new.section_id = old.section_id
           /\ new.is_internal_transfer = old.is_internal_transfer
           /\ new.transfer_from_type = old.transfer_from_type
           /\ new.transfer_from_id = old.transfer_from_id
           /\ new.transfer_to_type = old.transfer_to_type
           /\ new.transfer_to_id = old.transfer_to_id

\* A body that also names values for the keys that are not updatable was
\* accepted and changed the amount of a transaction of card 1, while
\* another transaction is stored
C21_Witness ==
    /\ last.op = "PUT" /\ last.http = 200
    /\ last.req.u.readonly # <<>>
    /\ \E old \in last.removed, new \in last.added :
           /\ old.id = new.id /\ old.amount # new.amount
           /\ new.card_id = 1 /\ ~new.is_internal_transfer
    /\ Cardinality(transactions) > 1

\* C22: after a successful delete_transaction, every later delete on an id
\* that a delete removed (the same id or, for an internal transfer, the
\* sibling's id) reports not-found (False, status 404) and leaves the store
\* unchanged.  Ids are never reused, so the removed ids are the issued ids
\* that are not stored.
C22_DeleteTwiceNotFound ==
    /\ (/\ last.op = "delete"
        /\ last.req.id < nextTxId
        /\ ~(\E t \in PreTransactions : t.id = last.req.id))
       => /\ last.status = "ok" /\ last.ret = FALSE
          /\ last.added = {} /\ last.removed = {}
    /\ \A id \in 1..(nextTxId - 1) :
           ~(\E t \in transactions : t.id = id)
           => LET a == api_delete_transaction(transactions, nextTxId, id)
              IN  a.http = 404 /\ a.out.transactions = transactions

\* One delete removed both records of a pair, and a later delete on one of
\* their ids reported not-found
C22_Witness ==
    /\ last.op = "delete" /\ last.ret = FALSE
    /\ last.req.id \in last.gone
    /\ Cardinality(last.gone) = 2
    /\ last.removed = {}

\* ------------------------------------------------------------------------
\* Properties of the cards and their sections
\* ------------------------------------------------------------------------

\* C23: deleting a card removes its sections: after a successful delete of
\* card c no stored section has card_id c, and in every reachable state
\* every section references an existing card
C23_SectionsHaveCard ==
    /\ (last.op = "delete_card" /\ last.status = "ok")
       => ~(\E s \in sections : s.card_id = last.req.id)
    /\ \A s \in sections : s.card_id \in cards

\* ------------------------------------------------------------------------
\* Further properties of the investment ledger
\* ------------------------------------------------------------------------

\* C24: the quantity a new sell is compared against
\* (_calculate_current_holdings) equals the current_quantity that
\* get_position_holdings reports for the same ledger, for every ledger
C24_SameQuantity ==
    \A rows \in ScanOrders(fractional.movements) :
        fractional_current_holdings(fractional.movements)
            = fractional_current_quantity(rows)

\* The holdings MovementDB.get_position_holdings can compute for position
\* p, one for each order the query can return
HoldingsOf(p) ==
    {get_position_holdings(o, p) : o \in ScanOrders(MovementsOf(movements, p))}

\* Some of the units bought for position p were sold and some are held
PartiallySold(p) ==
    /\ \E m \in MovementsOf(movements, p) : m.movement_type = "sell"
    /\ HeldQty(movements, p) > 0

\* C25: the two realized-P&L helpers are not interchangeable: for the same
\* ledger InvestmentPositionDB.get_position_summary and
\* MovementDB.get_position_holdings report the same current_quantity, total
\* cost and total proceeds, but the former's realized_pnl is 0 whenever
\* something was invested, so the two differ wherever the FIFO-based
\* realized_pnl is not 0, as on partially-sold positions
C25_HelpersDiffer ==
    \A q \in positions :
        LET s == position_db_summary(positions, movements, q.id)
        IN  \A h \in HoldingsOf(q.id) :
                /\ s.current_quantity = h.current_quantity
                /\ s.total_invested = h.total_cost
                /\ s.total_proceeds = h.total_proceeds
                /\ s.total_invested > 0
                   => /\ s.realized_pnl = 0
                      /\ (s.realized_pnl # h.realized_pnl)
                             <=> (h.realized_pnl # 0)

\* The summary of a partially-sold position was read and its realized_pnl
\* is not the FIFO-based one, the three totals being the same
C25_Witness ==
    /\ lastInv.op = "position_db_summary"
    /\ lastInv.ret # [found |-> FALSE]
    /\ PartiallySold(lastInv.req.position_id)
    /\ \A h \in HoldingsOf(lastInv.req.position_id) :
           /\ lastInv.ret.realized_pnl # h.realized_pnl
           /\ lastInv.ret.current_quantity = h.current_quantity
           /\ lastInv.ret.total_invested = h.total_cost
           /\ lastInv.ret.total_proceeds = h.total_proceeds

RECURSIVE SumRemaining(_, _)
\* remaining summed over the lots k..Len(lots)
SumRemaining(lots, k) ==
    IF k > Len(lots) THEN 0
    ELSE lots[k].remaining + SumRemaining(lots, k + 1)

\* C26: for every ledger reachable through accepted create_movement calls,
\* back-dated sells included, the sum of remaining over the open lots that
\* get_position_holdings returns equals the current_quantity it returns
C26_OpenLotsSumToQuantity ==
    \A q \in positions :
        \A h \in HoldingsOf(q.id) :
            SumRemaining(h.fifo_lots, 1) = h.current_quantity

\* C27: after any sequence of create_movement, update_movement and
\* delete_movement calls the total quantity bought for a position is at
\* least the total quantity sold
C27_BoughtCoversSold ==
    \A p \in 1..MaxPositions : HeldQty(movements, p) >= 0

\* ------------------------------------------------------------------------
\* Transfers that share their endpoints and date
\* ------------------------------------------------------------------------

\* The records of the transfer that record t belongs to:
\* _create_internal_transfer stores the debit record and then the credit
\* record, so they hold consecutive ids
OwnPair(t) ==
    {x \in PreTransactions :
        /\ x.is_internal_transfer
        /\ x.id \in {t.id, IF t.amount < 0 THEN t.id + 1 ELSE t.id - 1}}

\* Every transfer record stored before the last operation had its sibling
PairsComplete ==
    \A t \in PreTransactions :
        t.is_internal_transfer
        => \E x \in OwnPair(t) : IsPair(t, x) \/ IsPair(x, t)

\* C28: deleting one record of an internal-transfer pair removes exactly
\* the two records of that pair: the records of other transfers, also of
\* those with the same endpoints and transaction_date, and every
\* non-transfer transaction are still stored afterwards
C28_DeleteRemovesOnlyThePair ==
    (last.op = "delete" /\ last.status = "ok" /\ last.ret = TRUE
     /\ PairsComplete)
    => \A t \in PreTransactions :
           (t.id = last.req.id /\ t.is_internal_transfer)
           => last.removed = OwnPair(t)

\* ------------------------------------------------------------------------
\* Interleaved requests
\* ------------------------------------------------------------------------

\* C29: when two sell insertions for the same position are interleaved at
\* statement granularity, each on its own connection, the committed ledger
\* never holds more units sold than bought
C29_InterleavedSellsCovered ==
    \A p \in 1..MaxPositions : HeldQty(movements, p) >= 0

\* ------------------------------------------------------------------------
\* Properties of the rate limiter
\* ------------------------------------------------------------------------

\* The recorded timestamps of client c have all left the window
WindowLeft(c) ==
    \A i \in 1..Len(limiter.request_counts[c]) :
        limiter.request_counts[c][i]
            <= limiter.time - limiter.RATE_LIMIT_WINDOW

\* What the rate limiter keeps to, whatever the configured limit: the
\* timestamps recorded for a client are never more than
\* RATE_LIMIT_REQUESTS, a rejected request is not recorded, no client is in
\* blocked_ips, and a client that was rejected is admitted once its
\* recorded timestamps have left the window
LimiterKeeps ==
    /\ \A c \in Clients :
          /\ limiter.request_counts[c] # <<>>
             => Len(limiter.request_counts[c]) <= limiter.RATE_LIMIT_REQUESTS
          /\ (c \in limiter.rejected /\ WindowLeft(c))
             => check_rate_limit(limiter, c, limiter.time).allowed
    /\ (limiter.last.client_ip # None /\ ~limiter.last.allowed)
       => \A i \in 1..Len(limiter.request_counts[limiter.last.client_ip]) :
              \E j \in 1..Len(limiter.last.before) :
                  limiter.request_counts[limiter.last.client_ip][i]
                      = limiter.last.before[j]
    /\ limiter.blocked_ips = {}

\* C30 as stated, for every fixed configuration
C30_Original == LimiterKeeps

\* C30: under a fixed configuration with RATE_LIMIT_REQUESTS of at least 1,
\* the rate limiter never records more than RATE_LIMIT_REQUESTS in-window
\* timestamps for a client (a rejected request is not recorded), no
\* sequence of requests adds a client to blocked_ips, and a client
\* rejected for exceeding the limit is admitted again once its recorded
\* timestamps have left the window
C30_RateLimiter == limiter.RATE_LIMIT_REQUESTS >= 1 => LimiterKeeps

\* Under a limit of at least 1 a client that was rejected has been
\* admitted again, its earlier timestamps having left the window
C30_Witness ==
    /\ limiter.RATE_LIMIT_REQUESTS >= 1
    /\ limiter.last.client_ip \in limiter.rejected
    /\ limiter.last.allowed
    /\ limiter.last.before # <<>>
    /\ limiter.request_counts[limiter.last.client_ip] = <<limiter.time>>

====
